---------------------------- MODULE Spec2Model ----------------------------
(***************************************************************************)
(* Field reconciliation scripts of the clearance-form repository.          *)
(*                                                                         *)
(* Raw PDF field names are modelled as the strings they are; substring     *)
(* tests, regular-expression searches and f-string formatting are computed *)
(* on the characters, as the Python code computes them.                    *)
(***************************************************************************)
EXTENDS Integers, Sequences, FiniteSets, TLC

(***************************************************************************)
(* String primitives (Python `in`, re.search, int(), f-strings)            *)
(***************************************************************************)

\* s[k] as a one-character string (1-based)
CharAt(s, k) == SubSeq(s, k, k)

\* s[k:].startswith(p)
StartsAt(s, p, k) ==
    /\ k >= 1
    /\ k + Len(p) - 1 <= Len(s)
    /\ SubSeq(s, k, k + Len(p) - 1) = p

\* Python: p in s
Contains(s, p) == \E k \in 1..(Len(s) - Len(p) + 1) : StartsAt(s, p, k)

Digits == {"0", "1", "2", "3", "4", "5", "6", "7", "8", "9"}

DigitVal(c) ==
    CASE c = "0" -> 0 [] c = "1" -> 1 [] c = "2" -> 2 [] c = "3" -> 3
      [] c = "4" -> 4 [] c = "5" -> 5 [] c = "6" -> 6 [] c = "7" -> 7
      [] c = "8" -> 8 [] c = "9" -> 9

\* last position of the maximal run of digits starting at k (k - 1: no digit)
RECURSIVE DigitsEnd(_, _)
DigitsEnd(s, k) ==
    IF k <= Len(s) /\ CharAt(s, k) \in Digits THEN DigitsEnd(s, k + 1) ELSE k - 1

\* int(s[a..b]) for a run of digits
RECURSIVE IntOf(_, _, _)
IntOf(s, a, b) ==
    IF b < a THEN 0 ELSE IntOf(s, a, b - 1) * 10 + DigitVal(CharAt(s, b))

Min(S) == CHOOSE x \in S : \A y \in S : x <= y
Max(S) == CHOOSE x \in S : \A y \in S : x >= y

\* The regular expression  tag\[(\d+)\]  matched at position k:
\* <<>> when it does not match there, else <<group 1, end position>>.
IndexedAt(s, tag, k) ==
    LET Closed(a, e) == IF e >= a /\ StartsAt(s, "]", e + 1)
                        THEN <<IntOf(s, a, e), e + 1>>
                        ELSE <<>>
    IN  IF StartsAt(s, tag \o "[", k)
        THEN Closed(k + Len(tag) + 1, DigitsEnd(s, k + Len(tag) + 1))
        ELSE <<>>

\* re.search(r'tag\[(\d+)\]', s): <<>> for no match, else <<int(group(1))>>
SearchIndexed(s, tag) ==
    LET First(hits) == IF hits = {} THEN <<>> ELSE <<IndexedAt(s, tag, Min(hits))[1]>>
    IN  First({k \in 1..Len(s) : IndexedAt(s, tag, k) # <<>>})

\* The regular expression  tag(\d+)\[(\d+)\]  matched at position k:
\* <<>> or <<group 1, group 2, end position>>.
NumberedAt(s, tag, k) ==
    LET Index(g1, b, e2) == IF e2 >= b /\ StartsAt(s, "]", e2 + 1)
                            THEN <<g1, IntOf(s, b, e2), e2 + 1>>
                            ELSE <<>>
        Number(a, e1) == IF e1 >= a /\ StartsAt(s, "[", e1 + 1)
                         THEN Index(IntOf(s, a, e1), e1 + 2, DigitsEnd(s, e1 + 2))
                         ELSE <<>>
    IN  IF StartsAt(s, tag, k)
        THEN Number(k + Len(tag), DigitsEnd(s, k + Len(tag)))
        ELSE <<>>

\* re.search(r'tag(\d+)\[(\d+)\]', s): <<>> or <<group 1, group 2>>
SearchNumbered(s, tag) ==
    LET Groups(m) == <<m[1], m[2]>>
        First(hits) == IF hits = {} THEN <<>>
                       ELSE Groups(NumberedAt(s, tag, Min(hits)))
    IN  First({k \in 1..Len(s) : NumberedAt(s, tag, k) # <<>>})

\* re.search(r'Table1\[(\d+)\].*Row(\d+)\[(\d+)\].*Cell(\d+)\[(\d+)\]', s):
\* <<>> or <<table (group 1), row (group 2), cell (group 4)>>.  The search is
\* leftmost for Table1 and each .* is greedy: the last Row that a Cell still
\* follows, then the last Cell.
SearchTable(s) ==
    LET CellsAfter(p) == {c \in (p + 1)..Len(s) : NumberedAt(s, "Cell", c) # <<>>}
        RowsAfter(p)  == {r \in (p + 1)..Len(s) :
                             /\ NumberedAt(s, "Row", r) # <<>>
                             /\ CellsAfter(NumberedAt(s, "Row", r)[3]) # {}}
        WithRow(tm, rm) ==
            <<tm[1], rm[1], NumberedAt(s, "Cell", Max(CellsAfter(rm[3])))[1]>>
        WithTable(tm) == WithRow(tm, NumberedAt(s, "Row", Max(RowsAfter(tm[2]))))
        First(hits) == IF hits = {} THEN <<>>
                       ELSE WithTable(IndexedAt(s, "Table1", Min(hits)))
    IN  First({t \in 1..Len(s) :
                  /\ IndexedAt(s, "Table1", t) # <<>>
                  /\ RowsAfter(IndexedAt(s, "Table1", t)[2]) # {}})

(***************************************************************************)
(* scripts/generate-field-mappings.py: generate_logical_path               *)
(***************************************************************************)

\* Python None and a returned path, as a sequence of at most one string
None == <<>>
Some(p) == <<p>>

\* What a section branch of generate_logical_path does: it returns a value
\* (a path, or None), or it falls through to the default fallback.
Return(v) == [returned |-> TRUE, val |-> v]
Fall == [returned |-> FALSE, val |-> None]

\* a dict literal {0: seq[1], 1: seq[2], ...}
DenseMap(seq) == [i \in 0..(Len(seq) - 1) |-> seq[i + 1]]

\* m = re.search(tag\[(\d+)\]); if m: num = int(..); if num in map: return f'{prefix}.{map[num]}.value'
MapIndexed(n, tag, map, prefix) ==
    LET Found(m) == IF m # <<>> /\ m[1] \in DOMAIN map
                    THEN Return(Some(prefix \o "." \o map[m[1]] \o ".value"))
                    ELSE Fall
    IN  Found(SearchIndexed(n, tag))

\* m = re.search(DropDownList(\d+)\[(\d+)\]); if m: if list_num in map: return ...
MapDropdown(n, map, prefix) ==
    LET Found(m) == IF m # <<>> /\ m[1] \in DOMAIN map
                    THEN Return(Some(prefix \o "." \o map[m[1]] \o ".value"))
                    ELSE Fall
    IN  Found(SearchNumbered(n, "DropDownList"))

\* m = re.search(tag\[(\d+)\]); if m: return f'{prefix}.{word}{num}.value'
AnyIndexed(n, tag, word, prefix) ==
    LET Found(m) == IF m # <<>>
                    THEN Return(Some(prefix \o "." \o word \o ToString(m[1]) \o ".value"))
                    ELSE Fall
    IN  Found(SearchIndexed(n, tag))

\* m = re.search(DropDownList(\d+)\[(\d+)\]); if m: return f'{prefix}{word}{list_num}.value'
AnyDropdown(n, word, prefix) ==
    LET Found(m) == IF m # <<>>
                    THEN Return(Some(prefix \o word \o ToString(m[1]) \o ".value"))
                    ELSE Fall
    IN  Found(SearchNumbered(n, "DropDownList"))

\* m = re.search(Table1...Row...Cell...); if m: return f'{prefix}.table{t}Row{r}Cell{c}.value'
TablePath(n, prefix) ==
    LET Found(m) ==
            IF m # <<>>
            THEN Return(Some(prefix \o ".table" \o ToString(m[1]) \o "Row"
                               \o ToString(m[2]) \o "Cell" \o ToString(m[3])
                               \o ".value"))
            ELSE Fall
    IN  Found(SearchTable(n))

federal_field_map == DenseMap(<<
    "supervisorName", "supervisorRank", "supervisorTitle", "supervisorAddress",
    "supervisorCity", "supervisorZip", "employerStreet", "employerCity",
    "employerZip", "dutyStreet", "dutyCity", "dutyZip", "extension",
    "otherExplanation", "supervisorAddressAlt", "supervisorCityAlt",
    "dutyStreetAlt", "dutyApoFpo", "dutyZipAlt", "supervisorNameAlt">>)
federal_radio_map == DenseMap(<<"employmentType", "hasAdditionalInfo">>)
federal_date_map == DenseMap(<<"fromDate", "toDate">>)
federal_state_map == DenseMap(<<
    "supervisorState", "employerState", "dutyState", "supervisorStateAlt",
    "dutyStateAlt">>)
federal_dropdown_map ==
    4 :> "countryCode" @@ 17 :> "employerCountry" @@ 18 :> "supervisorCountry"
      @@ 20 :> "dutyCountry"
federal_phone_map == DenseMap(<<
    "supervisorPhone", "employerPhone", "supervisorEmail", "rankTitle",
    "dutyStation">>)

FederalPrefix == "section13.federalEmployment.entries[0]"

\* the branch  if 'section_13_1-2' in field_name  (Federal Employment, 13A.1)
FederalBranch(n) ==
    IF Contains(n, "TextField11")
    THEN MapIndexed(n, "TextField11", federal_field_map, FederalPrefix)
    ELSE IF Contains(n, "RadioButtonList")
    THEN MapIndexed(n, "RadioButtonList", federal_radio_map, FederalPrefix)
    ELSE IF Contains(n, "From_Datefield_Name_2")
    THEN MapIndexed(n, "From_Datefield_Name_2", federal_date_map, FederalPrefix)
    ELSE IF Contains(n, "School6_State")
    THEN MapIndexed(n, "School6_State", federal_state_map, FederalPrefix)
    ELSE IF Contains(n, "DropDownList")
    THEN MapDropdown(n, federal_dropdown_map, FederalPrefix)
    ELSE IF Contains(n, "p3-t68")
    THEN MapIndexed(n, "p3-t68", federal_phone_map, FederalPrefix)
    ELSE IF Contains(n, "#field")
    THEN AnyIndexed(n, "#field", "field", FederalPrefix)
    ELSE IF Contains(n, "p13a-1-1cb")
    THEN Return(Some(FederalPrefix \o ".checkbox.value"))
    ELSE Fall

nonfederal_field_map == DenseMap(<<
    "employerName", "positionTitle", "supervisorName", "supervisorTitle",
    "employerStreet", "employerCity", "employerZip", "employerPhone",
    "extension", "dutyStreet", "dutyCity", "dutyZip", "additionalInfo",
    "reasonForLeaving", "supervisorAddress", "supervisorCity",
    "supervisorStreet", "supervisorApoFpo", "supervisorZip",
    "supervisorNameAlt", "employerAddress2", "employerCity2",
    "employerStreet2", "employerApoFpo", "employerZip2", "employerNameAlt">>)
nonfederal_radio_map == DenseMap(<<
    "employmentType", "hasAdditionalInfo", "isCurrentEmployment">>)
nonfederal_date_map == DenseMap(<<"fromDate", "toDate">>)
nonfederal_state_map == DenseMap(<<
    "employerState", "dutyState", "supervisorState", "employerStateAlt",
    "dutyStateAlt", "supervisorStateAlt", "additionalState">>)
nonfederal_dropdown_map ==
    4 :> "countryCode" @@ 13 :> "employerCountry" @@ 15 :> "dutyCountry"
      @@ 16 :> "supervisorCountry"
nonfederal_phone_map == DenseMap(<<
    "employerPhone", "dutyPhone", "supervisorEmail", "supervisorPhone",
    "additionalPhone", "emergencyContact">>)

NonFederalPrefix == "section13.nonFederalEmployment.entries[0]"

\* the branch  elif 'section13_2' in field_name and 'section13_2-2' not in field_name
NonFederalBranch(n) ==
    IF Contains(n, "TextField11")
    THEN MapIndexed(n, "TextField11", nonfederal_field_map, NonFederalPrefix)
    ELSE IF Contains(n, "RadioButtonList")
    THEN MapIndexed(n, "RadioButtonList", nonfederal_radio_map, NonFederalPrefix)
    ELSE IF Contains(n, "From_Datefield_Name_2")
    THEN MapIndexed(n, "From_Datefield_Name_2", nonfederal_date_map, NonFederalPrefix)
    ELSE IF Contains(n, "School6_State")
    THEN MapIndexed(n, "School6_State", nonfederal_state_map, NonFederalPrefix)
    ELSE IF Contains(n, "DropDownList")
    THEN MapDropdown(n, nonfederal_dropdown_map, NonFederalPrefix)
    ELSE IF Contains(n, "p3-t68")
    THEN MapIndexed(n, "p3-t68", nonfederal_phone_map, NonFederalPrefix)
    ELSE IF Contains(n, "#field")
    THEN AnyIndexed(n, "#field", "field", NonFederalPrefix)
    ELSE IF Contains(n, "Table1")
    THEN TablePath(n, NonFederalPrefix)
    ELSE Fall

self_field_map == DenseMap(<<
    "businessName", "businessType", "businessDescription", "businessStreet",
    "businessCity", "businessZip", "businessPhone", "businessExtension",
    "businessEmail", "businessAddress2", "businessCity2", "businessZip2",
    "additionalInfo", "businessLicense", "businessTaxId", "businessRevenue",
    "businessEmployees", "businessApoFpo", "businessZipAlt", "businessContact",
    "businessAddress3", "businessCity3", "businessStreet3", "businessApoFpo2",
    "businessZip3", "businessNameAlt">>)
self_radio_map == DenseMap(<<"businessType", "hasEmployees", "isCurrentBusiness">>)
self_date_map == DenseMap(<<"fromDate", "toDate">>)
self_state_map == DenseMap(<<
    "businessState", "businessState2", "businessState3", "businessStateAlt",
    "businessStateAlt2", "businessStateAlt3", "additionalState">>)
self_dropdown_map ==
    4 :> "countryCode" @@ 9 :> "businessCountry" @@ 10 :> "businessCountry2"
      @@ 11 :> "businessCountry3"
self_phone_map == DenseMap(<<
    "businessPhone", "businessPhone2", "businessEmail", "businessFax",
    "businessWebsite">>)

SelfPrefix == "section13.selfEmployment.entries[0]"

\* the branch  elif 'section13_3' in field_name and 'section13_3-2' not in field_name
SelfBranch(n) ==
    IF Contains(n, "TextField11")
    THEN MapIndexed(n, "TextField11", self_field_map, SelfPrefix)
    ELSE IF Contains(n, "RadioButtonList")
    THEN MapIndexed(n, "RadioButtonList", self_radio_map, SelfPrefix)
    ELSE IF Contains(n, "From_Datefield_Name_2")
    THEN MapIndexed(n, "From_Datefield_Name_2", self_date_map, SelfPrefix)
    ELSE IF Contains(n, "School6_State")
    THEN MapIndexed(n, "School6_State", self_state_map, SelfPrefix)
    ELSE IF Contains(n, "DropDownList")
    THEN MapDropdown(n, self_dropdown_map, SelfPrefix)
    ELSE IF Contains(n, "p3-t68")
    THEN MapIndexed(n, "p3-t68", self_phone_map, SelfPrefix)
    ELSE IF Contains(n, "#field")
    THEN AnyIndexed(n, "#field", "field", SelfPrefix)
    ELSE Fall

unemployment_field_map == DenseMap(<<
    "firstName", "lastName", "referenceStreet", "referenceCity", "referenceZip",
    "referencePhone", "referenceExtension", "referenceEmail",
    "referenceAddress2", "referenceCity2", "referenceStreet2", "referenceZip2",
    "additionalInfo">>)
unemployment_radio_map == DenseMap(<<
    "hasReference", "receivedBenefits", "isCurrentlyUnemployed">>)
unemployment_date_map == DenseMap(<<
    "fromDate", "toDate", "unemploymentStartDate", "unemploymentEndDate",
    "benefitsStartDate", "benefitsEndDate", "additionalFromDate",
    "additionalToDate", "referenceFromDate", "referenceToDate">>)
unemployment_state_map == DenseMap(<<
    "referenceState", "referenceState2", "additionalState">>)
unemployment_dropdown_map == 4 :> "countryCode" @@ 6 :> "referenceCountry"

UnemploymentPrefix == "section13.unemployment.entries[0]"

\* re.search(r'#area\[(\d+)\].*#field\[(\d+)\]', s): <<>> or <<area, field>>
SearchAreaField(s) ==
    LET FieldsAfter(p) == {f \in (p + 1)..Len(s) : IndexedAt(s, "#field", f) # <<>>}
        WithArea(am) == <<am[1], IndexedAt(s, "#field", Max(FieldsAfter(am[2])))[1]>>
        First(hits) == IF hits = {} THEN <<>>
                       ELSE WithArea(IndexedAt(s, "#area", Min(hits)))
    IN  First({a \in 1..Len(s) :
                  /\ IndexedAt(s, "#area", a) # <<>>
                  /\ FieldsAfter(IndexedAt(s, "#area", a)[2]) # {}})

\* the branch  elif 'section13_4' in field_name  (Unemployment, 13A.4)
UnemploymentBranch(n) ==
    IF Contains(n, "TextField11")
    THEN MapIndexed(n, "TextField11", unemployment_field_map, UnemploymentPrefix)
    ELSE IF Contains(n, "RadioButtonList")
    THEN MapIndexed(n, "RadioButtonList", unemployment_radio_map, UnemploymentPrefix)
    ELSE IF Contains(n, "From_Datefield_Name_2")
    THEN MapIndexed(n, "From_Datefield_Name_2", unemployment_date_map, UnemploymentPrefix)
    ELSE IF Contains(n, "School6_State")
    THEN MapIndexed(n, "School6_State", unemployment_state_map, UnemploymentPrefix)
    ELSE IF Contains(n, "DropDownList")
    THEN MapDropdown(n, unemployment_dropdown_map, UnemploymentPrefix)
    ELSE IF Contains(n, "p3-t68")
    THEN AnyIndexed(n, "p3-t68", "phone", UnemploymentPrefix)
    ELSE IF Contains(n, "#field")
    THEN AnyIndexed(n, "#field", "field", UnemploymentPrefix)
    ELSE IF Contains(n, "#area")
    THEN LET Found(m) ==
                 IF m # <<>>
                 THEN Return(Some(UnemploymentPrefix \o ".area" \o ToString(m[1])
                                    \o "Field" \o ToString(m[2]) \o ".value"))
                 ELSE Fall
         IN  Found(SearchAreaField(n))
    ELSE Fall

issues_field_map == DenseMap(<<
    "agencyName", "agencyAddress", "clearanceLevel", "gapExplanation",
    "classificationLevel", "agencyCity", "agencyStreet", "agencyZip",
    "agencyPhone", "agencyContact", "agencyEmail", "additionalInfo">>)
issues_radio_map == DenseMap(<<"hasFederalEmployment", "hasGaps">>)
issues_date_map == DenseMap(<<
    "clearanceFromDate", "clearanceToDate", "employmentFromDate",
    "employmentToDate", "gapFromDate", "gapToDate", "additionalFromDate",
    "additionalToDate">>)
issues_state_map == DenseMap(<<
    "agencyState", "agencyState2", "agencyState3", "additionalState">>)
issues_dropdown_map == 2 :> "agencyCountry"
issues_phone_map == DenseMap(<<
    "agencyPhone", "agencyPhone2", "agencyFax", "agencyEmail", "contactPhone",
    "contactPhone2", "contactEmail", "additionalPhone">>)

IssuesPrefix == "section13.employmentRecordIssues"

\* the inner branch  elif '#area' in field_name  of section13_5 (lines 553-588)
IssuesAreaBranch(n) ==
    LET AreaIndexed(tag, word, area) ==
            LET Found(m) ==
                    IF m # <<>>
                    THEN Return(Some(area \o word \o ToString(m[1]) \o ".value"))
                    ELSE Fall
            IN  Found(SearchIndexed(n, tag))
        InArea(area) ==
            IF Contains(n, "TextField11") THEN AreaIndexed("TextField11", "Text", area)
            ELSE IF Contains(n, "#field") THEN AreaIndexed("#field", "Field", area)
            ELSE IF Contains(n, "DropDownList") THEN AnyDropdown(n, "Dropdown", area)
            ELSE IF Contains(n, "From_Datefield_Name_2")
            THEN AreaIndexed("From_Datefield_Name_2", "Date", area)
            ELSE IF Contains(n, "School6_State")
            THEN AreaIndexed("School6_State", "State", area)
            ELSE IF Contains(n, "p3-t68") THEN AreaIndexed("p3-t68", "Phone", area)
            ELSE Fall
        Found(am) ==
            IF am = <<>> THEN Fall
            ELSE InArea(IssuesPrefix \o ".area" \o ToString(am[1]))
    IN  Found(SearchIndexed(n, "#area"))

\* the branch  elif 'section13_5' in field_name  (Employment Issues, 13A.5)
IssuesBranch(n) ==
    IF Contains(n, "TextField11")
    THEN MapIndexed(n, "TextField11", issues_field_map, IssuesPrefix)
    ELSE IF Contains(n, "RadioButtonList")
    THEN MapIndexed(n, "RadioButtonList", issues_radio_map, IssuesPrefix)
    ELSE IF Contains(n, "From_Datefield_Name_2")
    THEN MapIndexed(n, "From_Datefield_Name_2", issues_date_map, IssuesPrefix)
    ELSE IF Contains(n, "School6_State")
    THEN MapIndexed(n, "School6_State", issues_state_map, IssuesPrefix)
    ELSE IF Contains(n, "DropDownList")
    THEN MapDropdown(n, issues_dropdown_map, IssuesPrefix)
    ELSE IF Contains(n, "p3-t68")
    THEN MapIndexed(n, "p3-t68", issues_phone_map, IssuesPrefix)
    ELSE IF Contains(n, "#field")
    THEN AnyIndexed(n, "#field", "field", IssuesPrefix)
    ELSE IF Contains(n, "#area")
    THEN IssuesAreaBranch(n)
    ELSE Fall

\* generate_additional_section_mapping(field_name, section_prefix): a path or None
generate_additional_section_mapping(n, section_prefix) ==
    LET Chain(prefix) ==
            IF Contains(n, "TextField11")
            THEN AnyIndexed(n, "TextField11", "textField", prefix)
            ELSE IF Contains(n, "RadioButtonList")
            THEN AnyIndexed(n, "RadioButtonList", "radioButton", prefix)
            ELSE IF Contains(n, "From_Datefield_Name_2")
            THEN AnyIndexed(n, "From_Datefield_Name_2", "dateField", prefix)
            ELSE IF Contains(n, "School6_State")
            THEN AnyIndexed(n, "School6_State", "state", prefix)
            ELSE IF Contains(n, "DropDownList")
            THEN AnyDropdown(n, ".dropdown", prefix)
            ELSE IF Contains(n, "p3-t68")
            THEN AnyIndexed(n, "p3-t68", "phone", prefix)
            ELSE IF Contains(n, "#field")
            THEN AnyIndexed(n, "#field", "field", prefix)
            ELSE IF Contains(n, "Table1")
            THEN TablePath(n, prefix)
            ELSE Fall
    IN  Chain("section13." \o section_prefix \o ".entries[0]").val

\* The regular expression  section13[_-]?(\d+(?:-\d+)?)  matched at position k:
\* <<>> or <<group 1>> (the section id, a string such as "2" or "2-2").
SectionAt(s, k) ==
    LET Suffix(b, e1, e2) == <<SubSeq(s, b, IF e2 >= e1 + 2 THEN e2 ELSE e1)>>
        Number(b, e1) ==
            IF e1 < b THEN <<>>
            ELSE IF StartsAt(s, "-", e1 + 1) THEN Suffix(b, e1, DigitsEnd(s, e1 + 2))
            ELSE <<SubSeq(s, b, e1)>>
        From(b) == Number(b, DigitsEnd(s, b))
        After(a) == From(IF StartsAt(s, "_", a) \/ StartsAt(s, "-", a) THEN a + 1 ELSE a)
    IN  IF StartsAt(s, "section13", k) THEN After(k + Len("section13")) ELSE <<>>

\* re.search(r'section13[_-]?(\d+(?:-\d+)?)', s)
SearchSection(s) ==
    LET First(hits) == IF hits = {} THEN <<>> ELSE SectionAt(s, Min(hits))
    IN  First({k \in 1..Len(s) : SectionAt(s, k) # <<>>})

\* the default fallback of generate_logical_path (lines 603-659)
DefaultFallback(n) ==
    LET \* field_type with field_index, 0 when the index does not parse
        Typed(base, field_type, m) ==
            Some(base \o "." \o field_type
                   \o ToString(IF m # <<>> THEN m[1] ELSE 0) \o ".value")
        TableOr(base, r) ==
            IF r.returned THEN r.val ELSE Typed(base, "tableField", <<>>)
        Path(base) ==
            IF Contains(n, "TextField11")
            THEN Typed(base, "textField", SearchIndexed(n, "TextField11"))
            ELSE IF Contains(n, "RadioButtonList")
            THEN Typed(base, "radioButton", SearchIndexed(n, "RadioButtonList"))
            ELSE IF Contains(n, "CheckBox")
            THEN Typed(base, "checkBox", <<>>)
            ELSE IF Contains(n, "DropDownList")
            THEN Typed(base, "dropdown", SearchNumbered(n, "DropDownList"))
            ELSE IF Contains(n, "School6_State")
            THEN Typed(base, "state", SearchIndexed(n, "School6_State"))
            ELSE IF Contains(n, "From_Datefield_Name_2")
            THEN Typed(base, "dateField", SearchIndexed(n, "From_Datefield_Name_2"))
            ELSE IF Contains(n, "p3-t68")
            THEN Typed(base, "phoneField", SearchIndexed(n, "p3-t68"))
            ELSE IF Contains(n, "#field")
            THEN Typed(base, "genericField", SearchIndexed(n, "#field"))
            ELSE IF Contains(n, "Table1")
            THEN TableOr(base, TablePath(n, base))
            ELSE Typed(base, "unknown", <<>>)
        Found(sm) == IF sm = <<>> THEN None ELSE Path("section13.section" \o sm[1])
    IN  Found(SearchSection(n))

\* C20 (variant): the chain with the tests  'section13_2-2' not in field_name
\* and  'section13_3-2' not in field_name  left out of the primary branches
C20_ChainWithoutVariantTest(n) ==
    IF Contains(n, "section_13_1-2") THEN FederalBranch(n)
    ELSE IF Contains(n, "section13_2") THEN NonFederalBranch(n)
    ELSE IF Contains(n, "section13_3") THEN SelfBranch(n)
    ELSE IF Contains(n, "section13_4") THEN UnemploymentBranch(n)
    ELSE IF Contains(n, "section13_5") THEN IssuesBranch(n)
    ELSE IF Contains(n, "section13_2-2")
    THEN Return(generate_additional_section_mapping(n, "nonFederalEmploymentAdditional"))
    ELSE IF Contains(n, "section13_3-2")
    THEN Return(generate_additional_section_mapping(n, "selfEmploymentAdditional"))
    ELSE IF Contains(n, "section13_4_3")
    THEN Return(generate_additional_section_mapping(n, "unemploymentAdditional"))
    ELSE Fall

\* the if/elif chain over the section patterns (lines 34-601)
SectionChain(n) ==
    IF Contains(n, "section_13_1-2") THEN FederalBranch(n)
    ELSE IF Contains(n, "section13_2") /\ ~Contains(n, "section13_2-2")
    THEN NonFederalBranch(n)
    ELSE IF Contains(n, "section13_3") /\ ~Contains(n, "section13_3-2")
    THEN SelfBranch(n)
    ELSE IF Contains(n, "section13_4") THEN UnemploymentBranch(n)
    ELSE IF Contains(n, "section13_5") THEN IssuesBranch(n)
    ELSE IF Contains(n, "section13_2-2")
    THEN Return(generate_additional_section_mapping(n, "nonFederalEmploymentAdditional"))
    ELSE IF Contains(n, "section13_3-2")
    THEN Return(generate_additional_section_mapping(n, "selfEmploymentAdditional"))
    ELSE IF Contains(n, "section13_4_3")
    THEN Return(generate_additional_section_mapping(n, "unemploymentAdditional"))
    ELSE Fall

\* C17 (variant): generate_logical_path with a path that follows the record's
\* value: a record that holds a value gets the value as its path
C17_PathFromValue(field_name, field_value, section_pattern) ==
    IF ~Contains(field_name, ".") THEN None
    ELSE IF field_value # "" THEN Some("section13." \o field_value \o ".value")
    ELSE LET Finish(r) == IF r.returned THEN r.val ELSE DefaultFallback(field_name)
         IN  Finish(SectionChain(field_name))

\* generate_logical_path(field_name, field_value, section_pattern) for a string
\* field_name: the path, or None.  len(field_name.split('.')) < 2 exactly when
\* the name holds no '.'.
generate_logical_path(field_name, field_value, section_pattern) ==
    IF ~Contains(field_name, ".") THEN None
    ELSE LET Finish(r) == IF r.returned THEN r.val ELSE DefaultFallback(field_name)
         IN  Finish(SectionChain(field_name))

(***************************************************************************)
(* The input batch of the Section 13 scripts (section-13.json)             *)
(***************************************************************************)

\* One element of data['fields'].  is_dict: the element is a JSON object;
\* has_name: it holds the key 'name'; name_is_str: the value of 'name' is a
\* string (name), else it is null or a number.
Field13(is_dict, has_name, name_is_str, name, value) ==
    [is_dict |-> is_dict, has_name |-> has_name, name_is_str |-> name_is_str,
     name |-> name, value |-> value]

NamedField13(name) == Field13(TRUE, TRUE, TRUE, name, "")

\* The records a batch is drawn from: well-formed names of the subsections,
\* with and without #area marker, with mapped and unmapped indices, one of
\* them a second time with a value, and the malformed records (no 'name', a
\* null 'name', an empty 'name', no object).
Fields13Universe == {
    NamedField13("form1[0].section_13_1-2[0].TextField11[0]"),
    NamedField13("form1[0].section_13_1-2[0].TextField11[20]"),
    Field13(TRUE, TRUE, TRUE, "form1[0].section_13_1-2[0].TextField11[0]",
            "sect13A.1Entry1"),
    NamedField13("form1[0].section13_4[0].#area[0].TextField11[0]"),
    NamedField13("form1[0].section13_4[0].#area[1].TextField11[0]"),
    NamedField13("form1[0].section13_4[0].TextField11[13]"),
    NamedField13("form1[0].section13_5[0].#area[0].TextField11[0]"),
    NamedField13("form1[0].section13_5[0].#area[1].TextField11[0]"),
    NamedField13("form1[0].section13_5[0].TextField11[13]"),
    NamedField13("form1[0].section13_2[0].suffix[0]"),
    NamedField13("form1[0].section13_2-2[0].TextField11[40]"),
    NamedField13("form1[0].section13_3-2[0].RadioButtonList[1]"),
    NamedField13("form1[0].section13_4_3[0].TextField11[0]"),
    NamedField13(""),
    Field13(TRUE, TRUE, FALSE, "", ""),
    Field13(TRUE, FALSE, FALSE, "", ""),
    Field13(FALSE, FALSE, FALSE, "", "") }

\* the longest batch of generate-field-mappings explored
MaxBatch == 3

\* all sequences of at most n distinct elements of S
RECURSIVE DistinctSeqs(_, _)
DistinctSeqs(S, n) ==
    IF n = 0 THEN {<<>>}
    ELSE LET shorter == DistinctSeqs(S, n - 1)
             longest == {q \in shorter : Len(q) = n - 1}
         IN  shorter \cup
             {Append(qx[1], qx[2]) :
                 qx \in {y \in longest \X S : \A i \in 1..Len(y[1]) : y[1][i] # y[2]}}

\* all sub-lists of a list (elements kept in order)
RECURSIVE SubLists(_)
SubLists(s) ==
    IF s = <<>> THEN {<<>>}
    ELSE LET Extend(rest) == rest \cup {<<Head(s)>> \o r : r \in rest}
         IN  Extend(SubLists(Tail(s)))

Range(s) == {s[i] : i \in DOMAIN s}

RECURSIVE SumValues(_)
\* sum(d.values())
SumValues(d) ==
    IF DOMAIN d = {} THEN 0
    ELSE LET Rest(k) == d[k] + SumValues([j \in DOMAIN d \ {k} |-> d[j]])
         IN  Rest(CHOOSE k \in DOMAIN d : TRUE)

(***************************************************************************)
(* State                                                                   *)
(***************************************************************************)

VARIABLES
    script,           \* which script of the repository is running
    data,             \* the loaded JSON: [has_fields, fields]
    pc,               \* the position in the script's main function
    error,            \* the exception that ended the run, "" for none
    printed,          \* the result lines printed so far
    locals,           \* the local variables of the running function, by name
    \* scripts/generate-field-mappings.py: main
    idx,              \* position of  for field in data['fields']  (next element)
    mappings,         \* dict logical_path -> field_name
    unmapped_fields,  \* list of field names
    section_stats     \* defaultdict(int): label -> count

mapVars == <<idx, mappings, unmapped_fields, section_stats>>

vars == <<script, data, pc, error, printed, locals, mapVars>>

\* an empty dict
EmptyDict == <<>>

\* d[k] = v
DictSet(d, k, v) == (k :> v) @@ d

\* defaultdict(int): d[k] += 1
DictIncr(d, k) == (k :> (IF k \in DOMAIN d THEN d[k] + 1 ELSE 1)) @@ d

\* data.get("fields", [])
FieldsOrEmpty(d) == IF d.has_fields THEN d.fields ELSE <<>>

\* the accumulators of generate-field-mappings while another script runs
MapIdle ==
    /\ idx = 0
    /\ mappings = EmptyDict
    /\ unmapped_fields = <<>>
    /\ section_stats = EmptyDict

(***************************************************************************)
(* scripts/generate-field-mappings.py: main                                *)
(***************************************************************************)

\* generate_logical_path(field_name, field_value, field_name) of every record
\* with a string name, computed once
LogicalPathOf ==
    [f \in {g \in Fields13Universe : g.name_is_str} |->
        generate_logical_path(f.name, f.value, f.name)]

\* Python truthiness of  if logical_path:  (None and '' are false)
Truthy(lp) == lp # None /\ lp[1] # ""

\* the section_stats label of a mapped field (lines 752-767)
SectionLabel(n) ==
    IF Contains(n, "section_13_1-2") THEN "13A.1 Federal Employment"
    ELSE IF Contains(n, "section13_2") /\ ~Contains(n, "section13_2-2")
    THEN "13A.2 Non-Federal Employment"
    ELSE IF Contains(n, "section13_2-2") THEN "13A.2 Additional Non-Federal"
    ELSE IF Contains(n, "section13_3") /\ ~Contains(n, "section13_3-2")
    THEN "13A.3 Self-Employment"
    ELSE IF Contains(n, "section13_3-2") THEN "13A.3 Additional Self-Employment"
    ELSE IF Contains(n, "section13_4") THEN "13A.4 Unemployment"
    ELSE IF Contains(n, "section13_5") THEN "13A.5 Employment Issues"
    ELSE "Other"

\* main up to line 735: the JSON is loaded, the accumulators are empty
MapInit ==
    /\ script = "generate-field-mappings"
    /\ data \in {[has_fields |-> FALSE, fields |-> <<>>]}
                 \cup {[has_fields |-> TRUE, fields |-> b] :
                          b \in DistinctSeqs(Fields13Universe, MaxBatch)}
    /\ idx = 1
    /\ mappings = EmptyDict
    /\ unmapped_fields = <<>>
    /\ section_stats = EmptyDict
    /\ printed = <<>>
    /\ locals = EmptyDict
    /\ pc = "loop"
    /\ error = ""

InLoop ==
    /\ script = "generate-field-mappings"
    /\ pc = "loop"
    /\ data.has_fields
    /\ idx <= Len(data.fields)

\* lines 739-740: not a dict, or no 'name': continue
SkipRecord ==
    /\ InLoop
    /\ LET field == data.fields[idx]
       IN  ~field.is_dict \/ ~field.has_name
    /\ idx' = idx + 1
    /\ UNCHANGED <<script, data, mappings, unmapped_fields, section_stats, printed,
                   locals, pc, error>>

\* line 746 -> line 26: field_name.split('.') on a name that is no string
\* raises AttributeError, which nothing in main catches
RaiseOnRecord ==
    /\ InLoop
    /\ LET field == data.fields[idx]
       IN  field.is_dict /\ field.has_name /\ ~field.name_is_str
    /\ pc' = "raised"
    /\ error' = "AttributeError"
    /\ UNCHANGED <<script, data, idx, mappings, unmapped_fields, section_stats,
                   printed, locals>>

\* lines 742-767: a logical path was generated
MapRecord ==
    /\ InLoop
    /\ LET field == data.fields[idx]
       IN  /\ field.is_dict /\ field.has_name /\ field.name_is_str
           /\ Truthy(LogicalPathOf[field])
           /\ mappings' = DictSet(mappings, LogicalPathOf[field][1], field.name)
           /\ section_stats' = DictIncr(section_stats, SectionLabel(field.name))
    /\ idx' = idx + 1
    /\ UNCHANGED <<script, data, unmapped_fields, printed, locals, pc, error>>

\* lines 742-748, 768-769: no logical path
UnmappedRecord ==
    /\ InLoop
    /\ LET field == data.fields[idx]
       IN  /\ field.is_dict /\ field.has_name /\ field.name_is_str
           /\ ~Truthy(LogicalPathOf[field])
           /\ unmapped_fields' = Append(unmapped_fields, field.name)
    /\ idx' = idx + 1
    /\ UNCHANGED <<script, data, mappings, section_stats, printed, locals, pc, error>>

\* line 737 false, or the for loop is exhausted
EndLoop ==
    /\ script = "generate-field-mappings"
    /\ pc = "loop"
    /\ ~data.has_fields \/ idx > Len(data.fields)
    /\ pc' = "results"
    /\ UNCHANGED <<script, data, idx, mappings, unmapped_fields, section_stats,
                   printed, locals, error>>

\* lines 771-774, then line 775: the coverage, a division by len(fields)
PrintResults ==
    /\ script = "generate-field-mappings"
    /\ pc = "results"
    /\ LET total == Len(FieldsOrEmpty(data))
           counts == [total |-> total,
                      mapped |-> Cardinality(DOMAIN mappings),
                      unmapped |-> Len(unmapped_fields)]
       IN  IF total = 0
           THEN /\ printed' = <<counts>>
                /\ pc' = "raised"
                /\ error' = "ZeroDivisionError"
           ELSE /\ printed' = <<counts,
                                [coverage_num |-> Cardinality(DOMAIN mappings) * 100,
                                 coverage_den |-> total]>>
                /\ pc' = "done"
                /\ error' = ""
    /\ UNCHANGED <<script, data, idx, mappings, unmapped_fields, section_stats, locals>>

MapNext == SkipRecord \/ RaiseOnRecord \/ MapRecord \/ UnmappedRecord \/ EndLoop
              \/ PrintResults

(***************************************************************************)
(* Section 16 scripts: calculate_field_distribution.py,                    *)
(* verify_field_pattern.py, generate_section16_interfaces.py               *)
(***************************************************************************)

\* one element of section-16.json's  fields
Field16(name, label) == [name |-> name, label |-> label]

\* The reference list the Section 16 batches are sub-lists of.
Fields16File == <<
    Field16("form1[0].Section16_1[0].TextField11[0]", "Organization"),
    Field16("form1[0].Section16_3[0].#area[0].From_Datefield_Name_2[0]", "From date"),
    Field16("form1[0].Section16_3[0].#area[1].From_Datefield_Name_2[2]",
            "Entry #1 To date"),
    Field16("form1[0].Section16_3[0].#area[2].From_Datefield_Name_2[4]", "From date"),
    Field16("form1[0].Section16_3[0].#area[1].TextField11[0]", "First name"),
    Field16("form1[0].Section16_3[0].TextField11[12]", "Entry #2 Last name"),
    Field16("form1[0].Section16_3[0].TextField11[40]", "City"),
    Field16("form1[0].Section16_3[0].suffix[0]", "Suffix"),
    Field16("form1[0].Section16_3[0].p3-t68[1]", "Phone"),
    Field16("form1[0].Section16_3[0].p3_t68[1]", "Phone"),
    Field16("form1[0].Section16_3[0].RadioButtonList[0]", "Yes") >>

UpperCase == "ABCDEFGHIJKLMNOPQRSTUVWXYZ"
LowerCase == "abcdefghijklmnopqrstuvwxyz"

\* str.lower()
RECURSIVE Lower(_)
Lower(s) ==
    LET LowerChar(c) ==
            IF \E i \in 1..Len(UpperCase) : CharAt(UpperCase, i) = c
            THEN CharAt(LowerCase, CHOOSE i \in 1..Len(UpperCase) : CharAt(UpperCase, i) = c)
            ELSE c
    IN  IF s = "" THEN "" ELSE LowerChar(CharAt(s, 1)) \o Lower(SubSeq(s, 2, Len(s)))

\* str.upper()
RECURSIVE Upper(_)
Upper(s) ==
    LET UpperChar(c) ==
            IF \E i \in 1..Len(LowerCase) : CharAt(LowerCase, i) = c
            THEN CharAt(UpperCase, CHOOSE i \in 1..Len(LowerCase) : CharAt(LowerCase, i) = c)
            ELSE c
    IN  IF s = "" THEN "" ELSE UpperChar(CharAt(s, 1)) \o Upper(SubSeq(s, 2, Len(s)))

\* s.replace(p, ''): every occurrence of p, from the left, is taken out
RECURSIVE RemoveAll(_, _)
RemoveAll(s, p) ==
    IF s = "" THEN ""
    ELSE IF StartsAt(s, p, 1) THEN RemoveAll(SubSeq(s, Len(p) + 1, Len(s)), p)
    ELSE CharAt(s, 1) \o RemoveAll(SubSeq(s, 2, Len(s)), p)

\* a chain of s.replace(c, table[c]) over single characters c, none of which
\* occurs in a replacement
RECURSIVE Replaced(_, _)
Replaced(s, table) ==
    LET Char(c) == IF c \in DOMAIN table THEN table[c] ELSE c
    IN  IF s = "" THEN "" ELSE Char(CharAt(s, 1)) \o Replaced(SubSeq(s, 2, Len(s)), table)

\* re.sub(r'[^...]', '', s): only the characters of  kept  stay
RECURSIVE Keep(_, _)
Keep(s, kept) ==
    LET Char(c) == IF Contains(kept, c) THEN c ELSE ""
    IN  IF s = "" THEN "" ELSE Char(CharAt(s, 1)) \o Keep(SubSeq(s, 2, Len(s)), kept)

\* [f for f in fs if p in f['name']]
NameHas(fs, p) ==
    LET Test(f) == Contains(f.name, p)
    IN  SelectSeq(fs, Test)

\* defaultdict keyed by int(re.search(r'#area\[(\d+)\]', name).group(1)): the
\* fields of each area, in order
GroupByArea(fs) ==
    LET AreaOf(f) == SearchIndexed(f.name, "#area")
        InArea(a) == LET Test(f) == AreaOf(f) = <<a>> IN SelectSeq(fs, Test)
    IN  [a \in {AreaOf(fs[i])[1] : i \in {j \in DOMAIN fs : AreaOf(fs[j]) # <<>>}} |->
            InArea(a)]

\* d.get(k, [])
GetOrEmpty(d, k) == IF k \in DOMAIN d THEN d[k] ELSE <<>>

\* d.get(k, 0)
GetOrZero(d, k) == IF k \in DOMAIN d THEN d[k] ELSE 0

\* the batch of a Section 16 script: data['fields'] is a sub-list of the
\* reference list
Init16(name) ==
    /\ script = name
    /\ data \in {[has_fields |-> TRUE, fields |-> b] : b \in SubLists(Fields16File)}
    /\ pc = "start"
    /\ error = ""
    /\ printed = <<>>
    /\ locals = EmptyDict
    /\ MapIdle

\* the variables a step that only assigns local variables leaves alone
stepVars == <<script, data, error, printed, mapVars>>

(* calculate_field_distribution.py *)

\* lines 20-29: if 'Section16_1' in name ... elif 'Section16_3' in name
CfdSeparate ==
    LET In16_3(f) == ~Contains(f.name, "Section16_1") /\ Contains(f.name, "Section16_3")
    IN  /\ script = "calculate_field_distribution"
        /\ pc = "start"
        /\ pc' = "by_area"
        /\ locals' = ([section16_1_fields |-> NameHas(data.fields, "Section16_1"),
                      section16_3_fields |-> SelectSeq(data.fields, In16_3)]) @@ locals
        /\ UNCHANGED stepVars

\* lines 34-45
CfdByArea ==
    LET NoArea(f) == SearchIndexed(f.name, "#area") = <<>>
    IN  /\ script = "calculate_field_distribution"
        /\ pc = "by_area"
        /\ pc' = "per_person"
        /\ locals' = ([section16_3_by_area |-> GroupByArea(locals.section16_3_fields),
                      section16_3_shared |->
                          SelectSeq(locals.section16_3_fields, NoArea)]) @@ locals
        /\ UNCHANGED stepVars

\* lines 52-73
CfdPerPerson ==
    LET by_area == locals.section16_3_by_area
        shared_fields_count == Len(locals.section16_3_shared)
        num_people == Cardinality(DOMAIN by_area)
        counts == [total_area_fields |-> SumValues([a \in DOMAIN by_area |-> Len(by_area[a])]),
                   shared_fields_count |-> shared_fields_count,
                   num_people |-> num_people]
        PerPerson(shared_per_person) ==
            [shared_per_person |-> shared_per_person,
             remaining_shared |-> shared_fields_count % num_people,
             total_for_person |-> [a \in DOMAIN by_area |->
                                      Len(by_area[a]) + shared_per_person]]
    IN  /\ script = "calculate_field_distribution"
        /\ pc = "per_person"
        /\ pc' = "hypothesis"
        /\ locals' = (IF num_people > 0
                      THEN PerPerson(shared_fields_count \div num_people) @@ counts
                      ELSE counts) @@ locals
        /\ UNCHANGED stepVars

\* lines 75-112
CfdHypothesis ==
    LET by_area == locals.section16_3_by_area
        entry1_fields == Len(locals.section16_1_fields)
        Entries(shared_per_person) ==
            <<entry1_fields,
              Len(GetOrEmpty(by_area, 0)) + shared_per_person,
              Len(GetOrEmpty(by_area, 1)) + shared_per_person,
              Len(GetOrEmpty(by_area, 2)) + shared_per_person>>
        Tested(entries) ==
            [shared_per_person |-> locals.shared_fields_count \div 3,
             entries |-> entries,
             total_calculated |-> entries[1] + entries[2] + entries[3] + entries[4],
             actual_total |-> Len(data.fields)]
    IN  /\ script = "calculate_field_distribution"
        /\ pc = "hypothesis"
        /\ pc' = "done"
        /\ locals' = (IF locals.num_people = 3
                      THEN Tested(Entries(locals.shared_fields_count \div 3))
                              @@ [entry1_fields |-> entry1_fields]
                      ELSE [entry1_fields |-> entry1_fields]) @@ locals
        /\ UNCHANGED stepVars

(* verify_field_pattern.py *)

\* C15 (variant): the range table with its upper ends one too far, so that
\* the indices 11 and 22 change groups
C15_PersonOfIndexShifted(index) ==
    IF 0 <= index /\ index <= 11 THEN 1
    ELSE IF 12 <= index /\ index <= 22 THEN 2
    ELSE IF 23 <= index /\ index <= 33 THEN 3
    ELSE 0

\* lines 37-44: the person of a TextField11 index, 0 for unknown
PersonOfIndex(index) ==
    IF 0 <= index /\ index <= 10 THEN 1
    ELSE IF 11 <= index /\ index <= 21 THEN 2
    ELSE IF 22 <= index /\ index <= 32 THEN 3
    ELSE 0

\* lines 20-48: textfield_pattern[person] is the list of (index, field)
VfpClassify ==
    LET fs == NameHas(data.fields, "Section16_3")
        IndexOf(f) == SearchIndexed(f.name, "TextField11")
        Matched(f) == IndexOf(f) # <<>>
        Other(f) == IndexOf(f) = <<>>
        Pair(f) == <<IndexOf(f)[1], f>>
        Of(matched, person) ==
            LET Test(f) == PersonOfIndex(IndexOf(f)[1]) = person
                chosen == SelectSeq(matched, Test)
            IN  [i \in DOMAIN chosen |-> Pair(chosen[i])]
        Pattern(matched) ==
            [person \in {PersonOfIndex(IndexOf(matched[i])[1]) : i \in DOMAIN matched} |->
                Of(matched, person)]
    IN  /\ script = "verify_field_pattern"
        /\ pc = "start"
        /\ pc' = "patterns"
        /\ locals' = ([section16_3_fields |-> fs,
                      textfield_pattern |-> Pattern(SelectSeq(fs, Matched)),
                      other_fields |-> SelectSeq(fs, Other)]) @@ locals
        /\ UNCHANGED stepVars

\* lines 66-69: the int of every name of fs that matches  tag\[(\d+)\]
IndicesOf(fs, tag) ==
    LET Matched(f) == SearchIndexed(f.name, tag) # <<>>
        Index(matched) == [i \in DOMAIN matched |-> SearchIndexed(matched[i].name, tag)[1]]
    IN  Index(SelectSeq(fs, Matched))

\* lines 60-90
VfpPatterns ==
    LET fs == locals.section16_3_fields
        Counts(by_area) == [a \in DOMAIN by_area |-> Len(by_area[a])]
    IN  /\ script = "verify_field_pattern"
        /\ pc = "patterns"
        /\ pc' = "per_person"
        /\ locals' = ([suffix_fields |-> NameHas(fs, "suffix["),
                      suffix_indices |-> IndicesOf(fs, "suffix"),
                      phone_fields |-> NameHas(fs, "p3-t68["),
                      phone_indices |-> IndicesOf(fs, "p3-t68"),
                      area_fields |-> NameHas(fs, "#area["),
                      area_counts |-> Counts(GroupByArea(NameHas(fs, "#area[")))]) @@ locals
        /\ UNCHANGED stepVars

\* lines 92-138
VfpPerPerson ==
    LET Textfields(person) == Len(GetOrEmpty(locals.textfield_pattern, person))
        Area(k) == GetOrZero(locals.area_counts, k)
        remaining_fields ==
            Len(locals.other_fields) - Len(locals.suffix_fields)
                - Len(locals.phone_fields) - SumValues(locals.area_counts)
        Totals(shared_per_person) ==
            [remaining_fields |-> remaining_fields,
             shared_per_person |-> shared_per_person,
             person1_total |-> Textfields(1) + Area(0) + 1 + 2 + shared_per_person,
             person2_total |-> Textfields(2) + Area(1) + 1 + 2 + shared_per_person,
             person3_total |-> Textfields(3) + Area(2) + 1 + 2 + shared_per_person]
    IN  /\ script = "verify_field_pattern"
        /\ pc = "per_person"
        /\ pc' = "final"
        /\ locals' = (Totals(remaining_fields \div 3)) @@ locals
        /\ UNCHANGED stepVars

\* lines 140-161
VfpFinal ==
    LET foreign_org_total == Len(NameHas(data.fields, "Section16_1"))
        total_calculated ==
            foreign_org_total + locals.person1_total + locals.person2_total
                + locals.person3_total
        Distance(x) == IF x < 0 THEN 0 - x ELSE x
    IN  /\ script = "verify_field_pattern"
        /\ pc = "final"
        /\ pc' = "done"
        /\ locals' = ([foreign_org_total |-> foreign_org_total,
                      total_calculated |-> total_calculated,
                      \* abs(total_calculated / 4 - 52) < 5
                      matches_52 |-> Distance(total_calculated - 4 * 52) < 4 * 5]) @@ locals
        /\ UNCHANGED stepVars

(* generate_section16_interfaces.py *)

\* lines 29-34: field_info; label = field.get('label', '')
FieldInfo(f) == [name |-> f.name, label |-> f.label]

\* d[info['name']] = info  on a dict kept as the list of its values: a known
\* key keeps its place
RECURSIVE PutAll(_, _)
PutAll(d, fs) ==
    LET Known(info) == \E i \in DOMAIN d : d[i].name = info.name
        Put(info) == IF Known(info)
                     THEN [i \in DOMAIN d |-> IF d[i].name = info.name THEN info ELSE d[i]]
                     ELSE Append(d, info)
    IN  IF fs = <<>> THEN d ELSE PutAll(Put(FieldInfo(Head(fs))), Tail(fs))

\* lines 20-39
GsiCategorize ==
    LET In16_3(f) == ~Contains(f.name, "Section16_1") /\ Contains(f.name, "Section16_3")
    IN  /\ script = "generate_section16_interfaces"
        /\ pc = "start"
        /\ pc' = "section16_1"
        /\ locals' = ([section16_1_fields |-> PutAll(<<>>, NameHas(data.fields, "Section16_1")),
                      section16_3_fields |-> PutAll(<<>>, SelectSeq(data.fields, In16_3))]) @@ locals
        /\ UNCHANGED stepVars

\* lines 99-126: the group of one Section16_1 field
Group16_1(name, field) ==
    LET In(label) ==
            IF Contains(label, "organization") \/ Contains(name, "TextField11[0]")
            THEN "organization"
            ELSE IF Contains(label, "contact #1") \/ Contains(name, "#area[2]")
            THEN "contact1"
            ELSE IF Contains(label, "contact #2") \/ Contains(name, "#area[5]")
            THEN "contact2"
            ELSE IF Contains(label, "date") \/ Contains(name, "From_Datefield")
            THEN "dates"
            ELSE IF Contains(label, "position") \/ Contains(label, "rank")
                    \/ Contains(label, "division")
            THEN "service_details"
            ELSE "other"
    IN  In(Lower(field.label))

\* lines 128-149: the group of one Section16_3 field
Group16_3(name, field) ==
    LET In(label) ==
            IF Contains(name, "#area[0]") \/ Contains(label, "entry #1") THEN "person1"
            ELSE IF Contains(name, "#area[1]") \/ Contains(label, "entry #2")
            THEN "person2"
            ELSE IF Contains(name, "#area[2]") \/ Contains(label, "entry #3")
            THEN "person3"
            ELSE "shared"
    IN  In(Lower(field.label))

\* groups[g] is the list of the fields of group g, in dict order
analyze_section16_1_fields(fields) ==
    [g \in {"organization", "service_details", "contact1", "contact2", "dates", "other"} |->
        LET Test(f) == Group16_1(f.name, f) = g IN SelectSeq(fields, Test)]

analyze_section16_3_fields(fields) ==
    [g \in {"person1", "person2", "person3", "shared"} |->
        LET Test(f) == Group16_3(f.name, f) = g IN SelectSeq(fields, Test)]

\* line 49
GsiAnalyze16_1 ==
    /\ script = "generate_section16_interfaces"
    /\ pc = "section16_1"
    /\ pc' = "section16_3"
    /\ locals' = ([s16_1_groups |-> analyze_section16_1_fields(locals.section16_1_fields)]) @@ locals
    /\ UNCHANGED stepVars

\* line 63
GsiAnalyze16_3 ==
    /\ script = "generate_section16_interfaces"
    /\ pc = "section16_3"
    /\ pc' = "field_ids"
    /\ locals' = ([s16_3_groups |-> analyze_section16_3_fields(locals.section16_3_fields)]) @@ locals
    /\ UNCHANGED stepVars

\* the characters of the field names, in the order of their code points
CodePoints ==
    " #(),-.0123456789" \o UpperCase \o "[\\]_" \o LowerCase

\* a < b  for two strings, as sorted() compares them
RECURSIVE StrLess(_, _)
StrLess(a, b) ==
    LET Point(c) == CHOOSE i \in 1..Len(CodePoints) : CharAt(CodePoints, i) = c
    IN  IF b = "" THEN FALSE
        ELSE IF a = "" THEN TRUE
        ELSE IF CharAt(a, 1) = CharAt(b, 1)
        THEN StrLess(SubSeq(a, 2, Len(a)), SubSeq(b, 2, Len(b)))
        ELSE Point(CharAt(a, 1)) < Point(CharAt(b, 1))

\* sorted(names) for a set of strings, lines 89 and 94
RECURSIVE Sorted(_)
Sorted(names) ==
    LET From(least) == <<least>> \o Sorted(names \ {least})
    IN  IF names = {} THEN <<>>
        ELSE From(CHOOSE x \in names : \A y \in names \ {x} : StrLess(x, y))

\* re.sub(r'_+', '_', s), line 274
RECURSIVE Squeezed(_)
Squeezed(s) ==
    IF Len(s) < 2 THEN s
    ELSE IF CharAt(s, 1) = "_" /\ CharAt(s, 2) = "_" THEN Squeezed(SubSeq(s, 2, Len(s)))
    ELSE CharAt(s, 1) \o Squeezed(SubSeq(s, 2, Len(s)))

\* convert_to_safe_property_name(field_name), lines 269-276
convert_to_safe_property_name(field_name) ==
    LET Safe(c) == Contains(LowerCase \o UpperCase \o "0123456789_", c)
        Substituted(s) ==
            Replaced(s, [c \in {CharAt(s, i) : i \in 1..Len(s)} |->
                            IF Safe(c) THEN c ELSE "_"])
        Stripped(s) ==
            LET inner == {i \in 1..Len(s) : CharAt(s, i) # "_"}
            IN  IF inner = {} THEN ""
                ELSE SubSeq(s, CHOOSE i \in inner : \A j \in inner : i <= j,
                            CHOOSE i \in inner : \A j \in inner : j <= i)
    IN  Stripped(Squeezed(Substituted(RemoveAll(field_name, "form1[0]."))))

\* lines 82-97: the lines of SECTION16_FIELD_IDS, one (safe_name, name) for
\* every key of the two dicts, each dict in sorted order
GsiFieldIds ==
    LET Names(d) == Sorted({d[i].name : i \in DOMAIN d})
        Lines(names) == [i \in DOMAIN names |->
                            [safe_name |-> convert_to_safe_property_name(names[i]),
                             name |-> names[i]]]
    IN  /\ script = "generate_section16_interfaces"
        /\ pc = "field_ids"
        /\ pc' = "done"
        /\ printed' = Lines(Names(locals.section16_1_fields))
                          \o Lines(Names(locals.section16_3_fields))
        /\ UNCHANGED <<script, data, error, locals, mapVars>>

Next16 == CfdSeparate \/ CfdByArea \/ CfdPerPerson \/ CfdHypothesis
             \/ VfpClassify \/ VfpPatterns \/ VfpPerPerson \/ VfpFinal
             \/ GsiCategorize \/ GsiAnalyze16_1 \/ GsiAnalyze16_3 \/ GsiFieldIds

(***************************************************************************)
(* The delta reports of scripts/analyze-section13-complete.py and          *)
(* scripts/generate-complete-section13-mapping.py                          *)
(***************************************************************************)

\* the expected number of Section 13 fields
ExpectedFields == 1086

\* how far below and above ExpectedFields the counted totals are drawn
DeltaSpan == 2

\* one printed line: its wording and the number it carries
Line(label, n) == [label |-> label, n |-> n]

\* analyze-section13-complete.py after line 105: count_all_fields has counted
InitAnalyze ==
    /\ script = "analyze-section13-complete"
    /\ \E total_fields \in (ExpectedFields - DeltaSpan)..(ExpectedFields + DeltaSpan) :
           locals = [total_fields |-> total_fields]
    /\ data = [has_fields |-> FALSE, fields |-> <<>>]
    /\ pc = "report"
    /\ error = ""
    /\ printed = <<>>
    /\ MapIdle

\* generate-complete-section13-mapping.py after line 180: generate_field_mappings
\* has filled the four dicts; locals.mappings holds their sizes
InitGenerate ==
    /\ script = "generate-complete-section13-mapping"
    /\ \E text \in (ExpectedFields - DeltaSpan)..(ExpectedFields + DeltaSpan),
          checkbox \in 0..1, radio \in 0..1, dropdown \in 0..1 :
           locals = [mappings |-> [TEXT_FIELDS |-> text, CHECKBOX_FIELDS |-> checkbox,
                                   RADIO_FIELDS |-> radio, DROPDOWN_FIELDS |-> dropdown]]
    /\ data = [has_fields |-> FALSE, fields |-> <<>>]
    /\ pc = "report"
    /\ error = ""
    /\ printed = <<>>
    /\ MapIdle

\* analyze-section13-complete.py, lines 107-118
AnalyzeReport ==
    /\ script = "analyze-section13-complete"
    /\ pc = "report"
    /\ LET total_fields == locals.total_fields
       IN  printed' =
               <<Line("TOTAL FIELDS FOUND", total_fields),
                 Line("EXPECTED FIELDS", ExpectedFields)>>
               \o (IF total_fields # ExpectedFields
                   THEN <<Line("Field count mismatch", 0),
                          Line("Difference", ExpectedFields - total_fields),
                          IF total_fields < ExpectedFields
                          THEN Line("Missing", ExpectedFields - total_fields)
                          ELSE Line("Extra", total_fields - ExpectedFields)>>
                   ELSE <<Line("Field count matches expected", ExpectedFields)>>)
    /\ pc' = "done"
    /\ UNCHANGED <<script, data, error, locals, mapVars>>

\* generate-complete-section13-mapping.py, lines 189-207
GenerateReport ==
    /\ script = "generate-complete-section13-mapping"
    /\ pc = "report"
    /\ LET m == locals.mappings
           total_fields == m.TEXT_FIELDS + m.CHECKBOX_FIELDS + m.RADIO_FIELDS
                              + m.DROPDOWN_FIELDS
       IN  /\ locals' = [total_fields |-> total_fields] @@ locals
           /\ printed' =
                  <<Line("TOTAL FIELDS", total_fields),
                    Line("Coverage", total_fields),
                    IF total_fields = ExpectedFields
                    THEN Line("PERFECT", ExpectedFields)
                    ELSE Line("Missing", ExpectedFields - total_fields)>>
    /\ pc' = "done"
    /\ UNCHANGED <<script, data, error, mapVars>>

NextDelta == AnalyzeReport \/ GenerateReport

(***************************************************************************)
(* scripts/generate-complete-section13-mapping.py: generate_field_mappings *)
(***************************************************************************)

\* C21 (variant): the key without the record index, the cleaned name alone
C21_KeyWithoutIndex(field_name, index) ==
    Upper(Replaced(RemoveAll(field_name, "form1[0]."),
                   ("[" :> "_") @@ ("]" :> "") @@ ("." :> "_") @@ ("#" :> "FIELD_")
                       @@ ("-" :> "_")))

\* generate_mapping_key(field_name, index), lines 59-68
generate_mapping_key(field_name, index) ==
    Upper(Replaced(RemoveAll(field_name, "form1[0]."),
                   ("[" :> "_") @@ ("]" :> "") @@ ("." :> "_") @@ ("#" :> "FIELD_")
                       @@ ("-" :> "_")))
        \o "_" \o ToString(index)

\* generate_value_key(value), lines 70-80
generate_value_key(value) ==
    Upper(Keep(Replaced(value,
                        ("." :> "_") @@ (" " :> "_") @@ ("(" :> "") @@ (")" :> "")
                            @@ ("," :> "") @@ ("#" :> "NUM")),
               LowerCase \o UpperCase \o "0123456789_"))

\* One element of data['fields'] as generate_field_mappings reads it: the keys
\* 'type', 'name' and 'value' may be absent, 'name' may be null and 'value'
\* may be no string.
TypedField(has_type, type, has_name, name_is_str, name, value_is_str, value) ==
    [has_type |-> has_type, type |-> type, has_name |-> has_name,
     name_is_str |-> name_is_str, name |-> name,
     value_is_str |-> value_is_str, value |-> value]

\* The records a batch of generate_field_mappings is drawn from: each of the
\* four declared types, two names that are cleaned to the same key, a
\* declared type of no category, no declared type, no name, and a null name.
TypedFieldsUniverse == {
    TypedField(TRUE, "PDFTextField", TRUE, TRUE,
               "form1[0].section13_2[0].TextField11[0]", TRUE, "sect13A.2Entry1"),
    TypedField(TRUE, "PDFTextField", TRUE, TRUE,
               "form1[0].section13_2[0].TextField11[1]", FALSE, ""),
    TypedField(TRUE, "PDFTextField", TRUE, TRUE,
               "form1[0].section13_2_0.TextField11_1", FALSE, ""),
    TypedField(TRUE, "PDFCheckBox", TRUE, TRUE,
               "form1[0].section13_4[0].#field[3]", FALSE, ""),
    TypedField(TRUE, "PDFRadioGroup", TRUE, TRUE,
               "form1[0].section13_5[0].RadioButtonList[0]", TRUE, "YES (#1)"),
    TypedField(TRUE, "PDFDropdown", TRUE, TRUE,
               "form1[0].section13_2-2[0].DropDownList1[0]", TRUE, "sect13A.2Entry1"),
    TypedField(TRUE, "PDFSignature", TRUE, TRUE,
               "form1[0].section13_2[0].Signature[0]", FALSE, ""),
    TypedField(FALSE, "", TRUE, TRUE,
               "form1[0].section13_3[0].Button[0]", FALSE, ""),
    TypedField(TRUE, "PDFTextField", FALSE, FALSE, "", FALSE, ""),
    TypedField(TRUE, "PDFTextField", TRUE, FALSE, "", FALSE, "") }

\* the keys of the dict  mappings  that hold the fields of a declared type
TypeCategories ==
    ("PDFTextField" :> "TEXT_FIELDS") @@ ("PDFCheckBox" :> "CHECKBOX_FIELDS")
        @@ ("PDFRadioGroup" :> "RADIO_FIELDS") @@ ("PDFDropdown" :> "DROPDOWN_FIELDS")

\* lines 19-29: data is loaded, the five dicts are empty, enumerate starts at 0
InitGfm ==
    /\ script = "generate_field_mappings"
    /\ data \in {[has_fields |-> TRUE, fields |-> b] :
                    b \in DistinctSeqs(TypedFieldsUniverse, MaxBatch)}
    /\ locals = [i |-> 0,
                 mappings |-> [TEXT_FIELDS |-> EmptyDict, CHECKBOX_FIELDS |-> EmptyDict,
                               RADIO_FIELDS |-> EmptyDict, DROPDOWN_FIELDS |-> EmptyDict,
                               STRING_VALUES |-> EmptyDict]]
    /\ pc = "fields"
    /\ error = ""
    /\ printed = <<>>
    /\ MapIdle

\* lines 32-55: one pass of  for i, field in enumerate(fields_array)
GfmRecord ==
    /\ script = "generate_field_mappings"
    /\ pc = "fields"
    /\ locals.i < Len(data.fields)
    /\ LET field == data.fields[locals.i + 1]
           field_type == IF field.has_type THEN field.type ELSE "unknown"
           field_name == IF field.has_name THEN field.name
                         ELSE "field_" \o ToString(locals.i)
           Categorized(m, mapping_key) ==
               IF field_type \in DOMAIN TypeCategories
               THEN [m EXCEPT ![TypeCategories[field_type]] =
                                  DictSet(@, mapping_key, field_name)]
               ELSE m
           WithValue(m) ==
               IF field.value_is_str
               THEN [m EXCEPT !.STRING_VALUES =
                                  DictSet(@, generate_value_key(field.value), field.value)]
               ELSE m
       IN  /\ field.has_name => field.name_is_str
           /\ locals' = [locals EXCEPT
                  !.i = @ + 1,
                  !.mappings = WithValue(Categorized(@,
                                   generate_mapping_key(field_name, locals.i)))]
    /\ UNCHANGED <<script, data, pc, error, printed, mapVars>>

\* line 41 -> line 62: field_name.replace on a null name raises AttributeError
GfmRaise ==
    /\ script = "generate_field_mappings"
    /\ pc = "fields"
    /\ locals.i < Len(data.fields)
    /\ LET field == data.fields[locals.i + 1]
       IN  field.has_name /\ ~field.name_is_str
    /\ pc' = "raised"
    /\ error' = "AttributeError"
    /\ UNCHANGED <<script, data, printed, locals, mapVars>>

\* line 57, then the sizes of lines 160-167 and 182-190
GfmCounts ==
    /\ script = "generate_field_mappings"
    /\ pc = "fields"
    /\ locals.i = Len(data.fields)
    /\ LET m == locals.mappings
           Size(k) == Cardinality(DOMAIN m[k])
       IN  printed' = <<[TEXT_FIELDS |-> Size("TEXT_FIELDS"),
                         CHECKBOX_FIELDS |-> Size("CHECKBOX_FIELDS"),
                         RADIO_FIELDS |-> Size("RADIO_FIELDS"),
                         DROPDOWN_FIELDS |-> Size("DROPDOWN_FIELDS"),
                         STRING_VALUES |-> Size("STRING_VALUES"),
                         TOTAL_FIELDS |-> Size("TEXT_FIELDS") + Size("CHECKBOX_FIELDS")
                                            + Size("RADIO_FIELDS") + Size("DROPDOWN_FIELDS")]>>
    /\ pc' = "done"
    /\ UNCHANGED <<script, data, error, locals, mapVars>>

NextGfm == GfmRecord \/ GfmRaise \/ GfmCounts

(***************************************************************************)
(* scripts/analyze-section13-complete.py: count_all_fields                 *)
(***************************************************************************)

\* JSON values: a dict is the list of its (key, value) items in order, a
\* list the list of its items, everything else a scalar
JDict(items) == [kind |-> "dict", items |-> items]
JList(items) == [kind |-> "list", items |-> items]
JScalar(v) == [kind |-> "scalar", v |-> v]

\* The structures count_all_fields is run on: flat field records, 'value'
\* keys at several depths, a 'value' that holds a dict with a 'value' of its
\* own, lists in lists, and structures without any 'value'.
JsonUniverse == {
    JDict(<< <<"fields", JList(<<
                JDict(<< <<"name", JScalar("a")>>, <<"value", JScalar("sect13A.1")>> >>),
                JDict(<< <<"name", JScalar("b")>>, <<"value", JScalar("1")>> >>) >>)>> >>),
    JDict(<< <<"value", JDict(<< <<"value", JScalar("inner")>> >>)>> >>),
    JDict(<< <<"section13", JDict(<< <<"federal", JDict(<< <<"entries", JList(<<
                JDict(<< <<"employer", JDict(<< <<"value", JScalar("v1")>>,
                                               <<"id", JScalar("1")>> >>)>> >>),
                JDict(<< <<"employer", JDict(<< <<"id", JScalar("2")>>,
                                               <<"value", JScalar("v2")>> >>)>>,
                         <<"value", JScalar("v3")>> >>) >>)>> >>)>> >>)>> >>),
    JList(<< JDict(<< <<"value", JScalar("a")>> >>),
             JList(<< JDict(<< <<"value", JScalar("b")>> >>), JScalar("c") >>) >>),
    JDict(<< <<"name", JScalar("a")>> >>),
    JDict(<<>>),
    JList(<<>>),
    JScalar("value") }

RECURSIVE count_all_fields(_, _, _)
RECURSIVE CountItems(_, _, _, _)

RECURSIVE C25_CountItemsLocalNumber(_, _, _, _)
\* C25 (variant): 'field_number' taken from the count of the call at hand
\* instead of the length of the list
C25_CountItemsLocalNumber(obj, path, k, field_list) ==
    LET Sub(acc, r) == [count |-> acc.count + r.count, field_list |-> r.field_list]
        DictItem(acc, key, value) ==
            IF key = "value"
            THEN [count |-> acc.count + 1,
                  field_list |-> Append(acc.field_list,
                                        [path |-> path, value |-> value,
                                         field_number |-> acc.count + 1])]
            ELSE Sub(acc, count_all_fields(value,
                                           IF path # "" THEN path \o "." \o key ELSE key,
                                           acc.field_list))
        ListItem(acc, item) ==
            Sub(acc, count_all_fields(item, path \o "[" \o ToString(k - 1) \o "]",
                                      acc.field_list))
        Pass(acc) == IF obj.kind = "dict"
                     THEN DictItem(acc, obj.items[k][1], obj.items[k][2])
                     ELSE ListItem(acc, obj.items[k])
    IN  IF k = 0 THEN [count |-> 0, field_list |-> field_list]
        ELSE Pass(C25_CountItemsLocalNumber(obj, path, k - 1, field_list))

\* lines 17-33: count and field_list after the first k passes of the for
\* loop over the dict or list obj
CountItems(obj, path, k, field_list) ==
    LET Sub(acc, r) == [count |-> acc.count + r.count, field_list |-> r.field_list]
        DictItem(acc, key, value) ==
            IF key = "value"
            THEN [count |-> acc.count + 1,
                  field_list |-> Append(acc.field_list,
                                        [path |-> path, value |-> value,
                                         field_number |-> Len(acc.field_list) + 1])]
            ELSE Sub(acc, count_all_fields(value,
                                           IF path # "" THEN path \o "." \o key ELSE key,
                                           acc.field_list))
        ListItem(acc, item) ==
            Sub(acc, count_all_fields(item, path \o "[" \o ToString(k - 1) \o "]",
                                      acc.field_list))
        Pass(acc) == IF obj.kind = "dict"
                     THEN DictItem(acc, obj.items[k][1], obj.items[k][2])
                     ELSE ListItem(acc, obj.items[k])
    IN  IF k = 0 THEN [count |-> 0, field_list |-> field_list]
        ELSE Pass(CountItems(obj, path, k - 1, field_list))

\* count_all_fields(obj, path, field_list) for a list field_list, lines 16-35:
\* the returned count and the list after the call
count_all_fields(obj, path, field_list) ==
    IF obj.kind \in {"dict", "list"}
    THEN CountItems(obj, path, Len(obj.items), field_list)
    ELSE [count |-> 0, field_list |-> field_list]

\* C18 (variant): the parameter declared as field_list=[], one list object
\* shared by every call that leaves the argument out
C18_SharedListDefault == Some(<<>>)

\* line 11: the default of the parameter field_list, an object made once,
\* when the function is defined
DefaultFieldList == None

\* how many calls in a row are explored
MaxCalls == 2

\* the structure is loaded, the function defined and not yet called
InitCount ==
    /\ script = "count_all_fields"
    /\ data \in JsonUniverse
    /\ locals = [field_list_default |-> DefaultFieldList, lists |-> 0, results |-> <<>>]
    /\ pc = "call"
    /\ error = ""
    /\ printed = <<>>
    /\ MapIdle

\* count_all_fields(data), as line 105 calls it: field_list is the default
\* object; lines 13-14 put a new list in its place when it is None.
\* locals.lists counts the list objects made ([] at line 14), a result holds
\* the number of the list object it returns (0: the default object)
CountCall ==
    /\ script = "count_all_fields"
    /\ pc = "call"
    /\ Len(locals.results) < MaxCalls
    /\ LET default == locals.field_list_default
           Returned(r, list) ==
               [count |-> r.count, field_list |-> r.field_list, list |-> list]
           Called(r) ==
               locals' =
                   IF default = None
                   THEN [locals EXCEPT !.lists = @ + 1,
                                       !.results = Append(@, Returned(r, locals.lists + 1))]
                   ELSE [locals EXCEPT !.field_list_default = Some(r.field_list),
                                       !.results = Append(@, Returned(r, 0))]
       IN  Called(count_all_fields(data, "", IF default = None THEN <<>> ELSE default[1]))
    /\ pc' = IF Len(locals.results) + 1 = MaxCalls THEN "done" ELSE "call"
    /\ UNCHANGED <<script, data, error, printed, mapVars>>

(***************************************************************************)
(* scripts/verify-section13-complete-1086.py                               *)
(***************************************************************************)

\* field_analysis of analyze_all_fields(data), lines 28-73. The records of
\* the batch carry no 'id' and no 'uniqueId'; a value that is no string is
\* an absent one (None). A defaultdict has the keys that were appended to.
analyze_all_fields(fields_array) ==
    LET Type(f) == IF f.has_type THEN f.type ELSE "unknown"
        Name(f, i) == IF ~f.has_name THEN Some("field_" \o ToString(i - 1))
                      ELSE IF f.name_is_str THEN Some(f.name) ELSE None
        Value(f) == IF f.value_is_str THEN Some(f.value) ELSE None
        Entry(f, i) == [index |-> i - 1, name |-> Name(f, i), value |-> Value(f),
                        id |-> "", uniqueId |-> ""]
        entries == [i \in DOMAIN fields_array |-> Entry(fields_array[i], i)]
        OfType(t) == LET Test(e) == Type(fields_array[e.index + 1]) = t
                     IN  SelectSeq(entries, Test)
        OfValueType(t) == LET Test(f) == (t = "string") <=> f.value_is_str
                          IN  SelectSeq(fields_array, Test)
    IN  [total_fields |-> Len(fields_array),
         by_type |-> [t \in {Type(fields_array[i]) : i \in DOMAIN fields_array} |->
                         OfType(t)],
         by_value_type |-> [t \in {IF fields_array[i].value_is_str THEN "string" ELSE "null" :
                                      i \in DOMAIN fields_array} |-> OfValueType(t)],
         string_values |-> {fields_array[i].value :
                               i \in {j \in DOMAIN fields_array :
                                         fields_array[j].value_is_str}},
         field_names |-> {entries[i].name : i \in DOMAIN entries},
         unique_ids |-> {entries[i].uniqueId : i \in DOMAIN entries}]

\* What section13.ts holds, as extract_interface_mappings reads it: the
\* quoted strings of SECTION13_FIELD_MAPPINGS and of the CHECKBOX_FIELDS,
\* RADIO_BUTTON_GROUPS and DROPDOWN_FIELDS blocks. No file, a file with
\* every value and name of the reference records, and a file with some.
InterfaceContents == {
    [mapping_section |-> {}, checkbox_section |-> {}, radio_section |-> {},
     dropdown_section |-> {}],
    [mapping_section |-> {"sect13A.2Entry1", "YES (#1)"},
     checkbox_section |-> {"form1[0].section13_4[0].#field[3]", "HAS_ADDITIONAL"},
     radio_section |-> {"form1[0].section13_5[0].RadioButtonList[0]"},
     dropdown_section |-> {"form1[0].section13_2-2[0].DropDownList1[0]"}],
    [mapping_section |-> {"sect13A.2Entry1", "sect13A.1Entry1"},
     checkbox_section |-> {},
     radio_section |-> {"form1[0].section13_5[0].RadioButtonList[0]",
                        "form1[0].section13_5[0].RadioButtonList[1]"},
     dropdown_section |-> {}] }

\* extract_interface_mappings(interface_content), lines 75-121: of the three
\* blocks only the strings with 'form1[0]' are kept; field_names stays empty
extract_interface_mappings(interface_content) ==
    LET FormFields(quoted) == {field \in quoted : Contains(field, "form1[0]")}
    IN  [string_values |-> interface_content.mapping_section,
         field_names |-> {},
         checkbox_fields |-> FormFields(interface_content.checkbox_section),
         radio_fields |-> FormFields(interface_content.radio_section),
         dropdown_fields |-> FormFields(interface_content.dropdown_section)]

\* verify_coverage(field_analysis, interface_mappings), lines 123-168. A
\* coverage  m / n * 100  is kept as the fraction  num / den
verify_coverage(field_analysis, interface_mappings) ==
    LET Coverage(matches, n) == IF n > 0 THEN [num |-> matches * 100, den |-> n]
                                ELSE [num |-> 0, den |-> 1]
        Names(t) == LET es == GetOrEmpty(field_analysis.by_type, t)
                    IN  {es[i].name : i \in DOMAIN es}
        Matches(names, mapped) == {n \in mapped : Some(n) \in names}
        Missing(names, mapped) == {n \in names : n = None \/ n[1] \notin mapped}
        Count(t) == Len(GetOrEmpty(field_analysis.by_type, t))
        string_values == field_analysis.string_values
        string_matches == string_values \cap interface_mappings.string_values
        checkbox_matches == Matches(Names("PDFCheckBox"), interface_mappings.checkbox_fields)
        radio_matches == Matches(Names("PDFRadioGroup"), interface_mappings.radio_fields)
        dropdown_matches == Matches(Names("PDFDropdown"), interface_mappings.dropdown_fields)
        total_mapped == Cardinality(string_matches) + Cardinality(checkbox_matches)
                            + Cardinality(radio_matches) + Cardinality(dropdown_matches)
    IN  [string_coverage |-> Coverage(Cardinality(string_matches),
                                      Cardinality(string_values)),
         checkbox_coverage |-> Coverage(Cardinality(checkbox_matches), Count("PDFCheckBox")),
         radio_coverage |-> Coverage(Cardinality(radio_matches), Count("PDFRadioGroup")),
         dropdown_coverage |-> Coverage(Cardinality(dropdown_matches), Count("PDFDropdown")),
         total_coverage |-> Coverage(total_mapped, field_analysis.total_fields),
         missing_fields |->
             [strings |-> string_values \ interface_mappings.string_values,
              checkboxes |-> Missing(Names("PDFCheckBox"), interface_mappings.checkbox_fields),
              radios |-> Missing(Names("PDFRadioGroup"), interface_mappings.radio_fields),
              dropdowns |-> Missing(Names("PDFDropdown"),
                                    interface_mappings.dropdown_fields)],
         total_mapped |-> total_mapped]

\* lines 175-176: the reference data and the interface file are loaded
InitVerify ==
    /\ script = "verify-section13-complete-1086"
    /\ data \in {[has_fields |-> TRUE, fields |-> b] :
                    b \in DistinctSeqs(TypedFieldsUniverse, MaxBatch)}
    /\ locals \in {[interface_content |-> c] : c \in InterfaceContents}
    /\ pc = "start"
    /\ error = ""
    /\ printed = <<>>
    /\ MapIdle

\* lines 179-180
VerAnalyze ==
    /\ script = "verify-section13-complete-1086"
    /\ pc = "start"
    /\ pc' = "verify"
    /\ locals' = [field_analysis |-> analyze_all_fields(data.fields),
                  interface_mappings |->
                      extract_interface_mappings(locals.interface_content)] @@ locals
    /\ UNCHANGED stepVars

\* lines 196-226: the coverage and the final assessment
VerCoverage ==
    LET AtLeast(c, percent) == c.num >= percent * c.den
        Assessment(c) == IF AtLeast(c, 99) THEN "near-perfect"
                         ELSE IF AtLeast(c, 95) THEN "excellent"
                         ELSE IF AtLeast(c, 90) THEN "very good"
                         ELSE IF AtLeast(c, 80) THEN "good"
                         ELSE "needs improvement"
        Verified(results) ==
            /\ locals' = [results |-> results] @@ locals
            /\ printed' = <<Assessment(results.total_coverage)>>
    IN  /\ script = "verify-section13-complete-1086"
        /\ pc = "verify"
        /\ pc' = "done"
        /\ Verified(verify_coverage(locals.field_analysis, locals.interface_mappings))
        /\ UNCHANGED <<script, data, error, mapVars>>

(***************************************************************************)
(* scripts/analyze-section9-fields.py                                      *)
(***************************************************************************)

\* The reference list the batches of analyze_field_patterns are sub-lists
\* of: the main status field, Sections7-9 fields (one with a value of the
\* 9.2 keywords), Section9\.1-9\.4 fields decided by value and by position
\* (one where the two disagree), a field of neither pattern, and a
\* record without 'type'. 'value' is a string, '' when absent.
Fields9Values == <<
    [name |-> "form1[0].Sections7-9[0].RadioButtonList[1]", has_type |-> TRUE,
     type |-> "PDFRadioGroup", value |-> "I am a U.S. citizen"],
    [name |-> "form1[0].Sections7-9[0].RadioButtonList[10]", has_type |-> TRUE,
     type |-> "PDFRadioGroup", value |-> ""],
    [name |-> "form1[0].Sections7-9[0].TextField11[3]", has_type |-> TRUE,
     type |-> "PDFTextField", value |-> "sect9.2Court"],
    [name |-> "form1[0].Section9\\.1-9\\.4[0].TextField11[6]", has_type |-> TRUE,
     type |-> "PDFTextField", value |-> "Naturalization Court"],
    [name |-> "form1[0].Section9\\.1-9\\.4[0].TextField11[17]", has_type |-> TRUE,
     type |-> "PDFTextField", value |-> "sect9.3Certificate"],
    [name |-> "form1[0].Section9\\.1-9\\.4[0].TextField11[18]", has_type |-> TRUE,
     type |-> "PDFTextField", value |-> "Alien document"],
    [name |-> "form1[0].Section9\\.1-9\\.4[0].TextField11[8]", has_type |-> TRUE,
     type |-> "PDFTextField", value |-> ""],
    [name |-> "form1[0].Section9\\.1-9\\.4[0].TextField11[19]", has_type |-> TRUE,
     type |-> "PDFTextField", value |-> ""],
    [name |-> "form1[0].Section9\\.1-9\\.4[0].RadioButtonList[1]", has_type |-> TRUE,
     type |-> "PDFRadioGroup", value |-> ""],
    [name |-> "form1[0].Section10[0].TextField11[0]", has_type |-> TRUE,
     type |-> "PDFTextField", value |-> ""],
    [name |-> "form1[0].Sections7-9[0].TextField11[4]", has_type |-> FALSE,
     type |-> "", value |-> ""] >>

RECURSIVE C26_PatternsWithoutElif(_)
\* C26 (variant): the test of 'Sections7-9[0]' as an  if  of its own, not an
\* elif  of the main status test
C26_PatternsWithoutElif(fields) ==
    LET HasAny(value, keywords) == \E keyword \in keywords : Contains(Lower(value), keyword)
        Has(name, tags) == \E tag \in tags : Contains(name, tag)
        Rest(name, value) ==
            IF Contains(name, "Sections7-9[0]") THEN "section_9_1"
            ELSE IF Contains(name, "Section9\\.1-9\\.4[0]")
            THEN IF HasAny(value, {"naturalization", "court", "sect9.2"}) THEN "section_9_2"
                 ELSE IF HasAny(value, {"sect9.3", "derived", "certificate"}) THEN "section_9_3"
                 ELSE IF HasAny(value, {"sect9.4", "9.4", "alien", "document"})
                 THEN "section_9_4"
                 ELSE IF Has(name, {"TextField11[17]", "TextField11[18]", "TextField11[19]"})
                 THEN "section_9_3"
                 ELSE IF Has(name, {"TextField11[8]", "TextField11[9]"}) THEN "section_9_4"
                 ELSE "section_9_2"
            ELSE "unknown"
        First(patterns, field) ==
            IF Contains(field.name, "Sections7-9[0].RadioButtonList[1]")
            THEN [patterns EXCEPT !.main_status = Append(@, field)]
            ELSE patterns
        Put(patterns, field) ==
            [First(patterns, field) EXCEPT ![Rest(field.name, field.value)] = Append(@, field)]
    IN  IF fields = <<>>
        THEN [main_status |-> <<>>, section_9_1 |-> <<>>, section_9_2 |-> <<>>,
              section_9_3 |-> <<>>, section_9_4 |-> <<>>, unknown |-> <<>>]
        ELSE Put(C26_PatternsWithoutElif(SubSeq(fields, 1, Len(fields) - 1)),
                 fields[Len(fields)])

RECURSIVE analyze_field_patterns(_)
\* analyze_field_patterns(fields), lines 24-64, for fields that all have a
\* 'type': every field is appended to the list of the first branch it meets
analyze_field_patterns(fields) ==
    LET HasAny(value, keywords) == \E keyword \in keywords : Contains(Lower(value), keyword)
        Has(name, tags) == \E tag \in tags : Contains(name, tag)
        Branch(name, value) ==
            IF Contains(name, "Sections7-9[0].RadioButtonList[1]") THEN "main_status"
            ELSE IF Contains(name, "Sections7-9[0]") THEN "section_9_1"
            ELSE IF Contains(name, "Section9\\.1-9\\.4[0]")
            THEN IF HasAny(value, {"naturalization", "court", "sect9.2"}) THEN "section_9_2"
                 ELSE IF HasAny(value, {"sect9.3", "derived", "certificate"}) THEN "section_9_3"
                 ELSE IF HasAny(value, {"sect9.4", "9.4", "alien", "document"})
                 THEN "section_9_4"
                 ELSE IF Has(name, {"TextField11[17]", "TextField11[18]", "TextField11[19]"})
                 THEN "section_9_3"
                 ELSE IF Has(name, {"TextField11[8]", "TextField11[9]"}) THEN "section_9_4"
                 ELSE "section_9_2"
            ELSE "unknown"
        Put(patterns, field) ==
            [patterns EXCEPT ![Branch(field.name, field.value)] = Append(@, field)]
    IN  IF fields = <<>>
        THEN [main_status |-> <<>>, section_9_1 |-> <<>>, section_9_2 |-> <<>>,
              section_9_3 |-> <<>>, section_9_4 |-> <<>>, unknown |-> <<>>]
        ELSE Put(analyze_field_patterns(SubSeq(fields, 1, Len(fields) - 1)),
                 fields[Len(fields)])

\* lines 127-128: section-9.json is loaded; its metadata and statistics,
\* which lines 132-133 print, are there
InitPatterns ==
    /\ script = "analyze-section9-fields"
    /\ data \in {[has_fields |-> TRUE, fields |-> b] : b \in SubLists(Fields9Values)}
    /\ pc = "start"
    /\ error = ""
    /\ printed = <<>>
    /\ locals = EmptyDict
    /\ MapIdle

\* line 137: patterns = analyze_field_patterns(fields); field['type'] of a
\* record without 'type' raises KeyError (line 37)
AfpAnalyze ==
    /\ script = "analyze-section9-fields"
    /\ pc = "start"
    /\ IF \E i \in DOMAIN data.fields : ~data.fields[i].has_type
       THEN /\ pc' = "raised"
            /\ error' = "KeyError"
            /\ UNCHANGED locals
       ELSE /\ pc' = "print"
            /\ error' = ""
            /\ locals' = [patterns |-> analyze_field_patterns(data.fields)] @@ locals
    /\ UNCHANGED <<script, data, printed, mapVars>>

\* line 140, print_field_analysis(patterns), lines 66-91: TOTAL FIELDS and the number
\* of fields of every list
AfpPrint ==
    LET Sizes(patterns) == [section \in DOMAIN patterns |-> Len(patterns[section])]
    IN  /\ script = "analyze-section9-fields"
        /\ pc = "print"
        /\ pc' = "done"
        /\ printed' = <<[total_fields |-> SumValues(Sizes(locals.patterns)),
                         sizes |-> Sizes(locals.patterns)]>>
        /\ UNCHANGED <<script, data, error, locals, mapVars>>

(***************************************************************************)
(* section9-field-audit.py                                                 *)
(***************************************************************************)

\* lines 18-108: raw field name -> interface path
implemented_field_names ==
    LET entries == {
        <<"form1[0].Sections7-9[0].RadioButtonList[1]",
      "section9.status">>,
        <<"form1[0].Sections7-9[0].RadioButtonList[3]",
      "section9.bornToUSParents.documentType">>,
        <<"form1[0].Sections7-9[0].TextField11[3]",
      "section9.bornToUSParents.otherExplanation">>,
        <<"form1[0].Sections7-9[0].TextField11[4]",
      "section9.bornToUSParents.documentNumber">>,
        <<"form1[0].Sections7-9[0].From_Datefield_Name_2[1]",
      "section9.bornToUSParents.documentIssueDate">>,
        <<"form1[0].Sections7-9[0].#field[25]",
      "section9.bornToUSParents.isIssueDateEstimated">>,
        <<"form1[0].Sections7-9[0].TextField11[5]",
      "section9.bornToUSParents.issueCity">>,
        <<"form1[0].Sections7-9[0].School6_State[0]",
      "section9.bornToUSParents.issueState">>,
        <<"form1[0].Sections7-9[0].DropDownList12[0]",
      "section9.bornToUSParents.issueCountry">>,
        <<"form1[0].Sections7-9[0].TextField11[8]",
      "section9.bornToUSParents.nameOnDocument.firstName">>,
        <<"form1[0].Sections7-9[0].TextField11[6]",
      "section9.bornToUSParents.nameOnDocument.middleName">>,
        <<"form1[0].Sections7-9[0].TextField11[7]",
      "section9.bornToUSParents.nameOnDocument.lastName">>,
        <<"form1[0].Sections7-9[0].suffix[1]",
      "section9.bornToUSParents.nameOnDocument.suffix">>,
        <<"form1[0].Sections7-9[0].RadioButtonList[2]",
      "section9.bornToUSParents.wasBornOnMilitaryInstallation">>,
        <<"form1[0].Sections7-9[0].TextField11[18]",
      "section9.bornToUSParents.militaryBaseName">>,
        <<"form1[0].Sections7-9[0].TextField11[12]",
      "section9.bornToUSParents.certificateNumber">>,
        <<"form1[0].Sections7-9[0].From_Datefield_Name_2[2]",
      "section9.bornToUSParents.certificateIssueDate">>,
        <<"form1[0].Sections7-9[0].#field[28]",
      "section9.bornToUSParents.isCertificateDateEstimated">>,
        <<"form1[0].Sections7-9[0].TextField11[11]",
      "section9.bornToUSParents.nameOnCertificate.firstName">>,
        <<"form1[0].Sections7-9[0].TextField11[9]",
      "section9.bornToUSParents.nameOnCertificate.middleName">>,
        <<"form1[0].Sections7-9[0].TextField11[10]",
      "section9.bornToUSParents.nameOnCertificate.lastName">>,
        <<"form1[0].Sections7-9[0].suffix[2]",
      "section9.bornToUSParents.nameOnCertificate.suffix">>,
        <<"form1[0].Section9\\.1-9\\.4[0].TextField11[6]",
      "section9.naturalizedCitizen.naturalizedCertificateNumber">>,
        <<"form1[0].Section9\\.1-9\\.4[0].TextField11[3]",
      "section9.naturalizedCitizen.nameOnCertificate.firstName">>,
        <<"form1[0].Section9\\.1-9\\.4[0].TextField11[1]",
      "section9.naturalizedCitizen.nameOnCertificate.middleName">>,
        <<"form1[0].Section9\\.1-9\\.4[0].TextField11[2]",
      "section9.naturalizedCitizen.nameOnCertificate.lastName">>,
        <<"form1[0].Section9\\.1-9\\.4[0].suffix[0]",
      "section9.naturalizedCitizen.nameOnCertificate.suffix">>,
        <<"form1[0].Section9\\.1-9\\.4[0].TextField11[4]",
      "section9.naturalizedCitizen.courtAddress.street">>,
        <<"form1[0].Section9\\.1-9\\.4[0].TextField11[0]",
      "section9.naturalizedCitizen.courtAddress.city">>,
        <<"form1[0].Section9\\.1-9\\.4[0].School6_State[0]",
      "section9.naturalizedCitizen.courtAddress.state">>,
        <<"form1[0].Section9\\.1-9\\.4[0].TextField11[5]",
      "section9.naturalizedCitizen.courtAddress.zipCode">>,
        <<"form1[0].Section9\\.1-9\\.4[0].TextField11[15]",
      "section9.naturalizedCitizen.courtName">>,
        <<"form1[0].Section9\\.1-9\\.4[0].From_Datefield_Name_2[0]",
      "section9.naturalizedCitizen.certificateIssueDate">>,
        <<"form1[0].Section9\\.1-9\\.4[0].#field[10]",
      "section9.naturalizedCitizen.isCertificateDateEstimated">>,
        <<"form1[0].Section9\\.1-9\\.4[0].TextField11[7]",
      "section9.naturalizedCitizen.otherExplanation">>,
        <<"form1[0].Section9\\.1-9\\.4[0].From_Datefield_Name_2[4]",
      "section9.naturalizedCitizen.entryDate">>,
        <<"form1[0].Section9\\.1-9\\.4[0].#field[32]",
      "section9.naturalizedCitizen.isEntryDateEstimated">>,
        <<"form1[0].Section9\\.1-9\\.4[0].TextField11[16]",
      "section9.naturalizedCitizen.entryCity">>,
        <<"form1[0].Section9\\.1-9\\.4[0].School6_State[1]",
      "section9.naturalizedCitizen.entryState">>,
        <<"form1[0].Section9\\.1-9\\.4[0].DropDownList15[0]",
      "section9.naturalizedCitizen.priorCitizenship">>,
        <<"form1[0].Section9\\.1-9\\.4[0].DropDownList15[1]",
      "section9.naturalizedCitizen.priorCitizenship2">>,
        <<"form1[0].Section9\\.1-9\\.4[0].DropDownList15[2]",
      "section9.naturalizedCitizen.priorCitizenship3">>,
        <<"form1[0].Section9\\.1-9\\.4[0].DropDownList15[3]",
      "section9.naturalizedCitizen.priorCitizenship4">>,
        <<"form1[0].Section9\\.1-9\\.4[0].RadioButtonList[1]",
      "section9.naturalizedCitizen.hasAlienRegistrationRadio">>,
        <<"form1[0].Section9\\.1-9\\.4[0].TextField11[17]",
      "section9.derivedCitizen.alienRegistrationNumber">>,
        <<"form1[0].Section9\\.1-9\\.4[0].TextField11[18]",
      "section9.derivedCitizen.permanentResidentCardNumber">>,
        <<"form1[0].Section9\\.1-9\\.4[0].TextField11[19]",
      "section9.derivedCitizen.certificateOfCitizenshipNumber">>,
        <<"form1[0].Section9\\.1-9\\.4[0].TextField11[20]",
      "section9.derivedCitizen.nameOnDocument.firstName">>,
        <<"form1[0].Section9\\.1-9\\.4[0].TextField11[21]",
      "section9.derivedCitizen.nameOnDocument.middleName">>,
        <<"form1[0].Section9\\.1-9\\.4[0].TextField11[22]",
      "section9.derivedCitizen.nameOnDocument.lastName">>,
        <<"form1[0].Section9\\.1-9\\.4[0].suffix[2]",
      "section9.derivedCitizen.nameOnDocument.suffix">>,
        <<"form1[0].Section9\\.1-9\\.4[0].TextField11[23]",
      "section9.derivedCitizen.otherExplanation">>,
        <<"form1[0].Section9\\.1-9\\.4[0].From_Datefield_Name_2[5]",
      "section9.derivedCitizen.documentIssueDate">>,
        <<"form1[0].Section9\\.1-9\\.4[0].#field[50]",
      "section9.derivedCitizen.isDocumentIssueDateEstimated">>,
        <<"form1[0].Section9\\.1-9\\.4[0].#field[51]",
      "section9.derivedCitizen.isBasisEstimated">>,
        <<"form1[0].Section9\\.1-9\\.4[0].#field[53]",
      "section9.derivedCitizen.isDateEstimated">>,
        <<"form1[0].Section9\\.1-9\\.4[0].TextField11[24]",
      "section9.derivedCitizen.additionalFirstName">>,
        <<"form1[0].Section9\\.1-9\\.4[0].TextField11[25]",
      "section9.derivedCitizen.additionalExplanation">>,
        <<"form1[0].Section9\\.1-9\\.4[0].#field[27]",
      "section9.derivedCitizen.otherProvideExplanation">>,
        <<"form1[0].Section9\\.1-9\\.4[0].#field[28]",
      "section9.derivedCitizen.basisOfNaturalization">>,
        <<"form1[0].Section9\\.1-9\\.4[0].TextField11[8]",
      "section9.nonUSCitizen.residenceStatus">>,
        <<"form1[0].Section9\\.1-9\\.4[0].From_Datefield_Name_2[1]",
      "section9.nonUSCitizen.entryDate">>,
        <<"form1[0].Section9\\.1-9\\.4[0].#field[15]",
      "section9.nonUSCitizen.isEntryDateEstimated">>,
        <<"form1[0].Section9\\.1-9\\.4[0].TextField11[9]",
      "section9.nonUSCitizen.alienRegistrationNumber">>,
        <<"form1[0].Section9\\.1-9\\.4[0].From_Datefield_Name_2[2]",
      "section9.nonUSCitizen.documentIssueDate">>,
        <<"form1[0].Section9\\.1-9\\.4[0].#field[18]",
      "section9.nonUSCitizen.isDocumentIssueDateEstimated">>,
        <<"form1[0].Section9\\.1-9\\.4[0].From_Datefield_Name_2[3]",
      "section9.nonUSCitizen.documentExpirationDate">>,
        <<"form1[0].Section9\\.1-9\\.4[0].#field[26]",
      "section9.nonUSCitizen.isDocumentExpirationEstimated">>,
        <<"form1[0].Section9\\.1-9\\.4[0].TextField11[12]",
      "section9.nonUSCitizen.nameOnDocument.firstName">>,
        <<"form1[0].Section9\\.1-9\\.4[0].TextField11[10]",
      "section9.nonUSCitizen.nameOnDocument.middleName">>,
        <<"form1[0].Section9\\.1-9\\.4[0].TextField11[11]",
      "section9.nonUSCitizen.nameOnDocument.lastName">>,
        <<"form1[0].Section9\\.1-9\\.4[0].suffix[1]",
      "section9.nonUSCitizen.nameOnDocument.suffix">>,
        <<"form1[0].Section9\\.1-9\\.4[0].TextField11[13]",
      "section9.nonUSCitizen.documentNumber">>,
        <<"form1[0].Section9\\.1-9\\.4[0].RadioButtonList[0]",
      "section9.nonUSCitizen.hasAlienRegistration">>,
        <<"form1[0].Section9\\.1-9\\.4[0].TextField11[14]",
      "section9.nonUSCitizen.explanation">>,
        <<"form1[0].Section9\\.1-9\\.4[0].From_Datefield_Name_2[6]",
      "section9.nonUSCitizen.additionalDocumentExpirationDate">>,
        <<"form1[0].Section9\\.1-9\\.4[0].#field[55]",
      "section9.nonUSCitizen.isAdditionalDocumentExpirationEstimated">>,
        <<"form1[0].Section9\\.1-9\\.4[0].School6_State[2]",
      "section9.nonUSCitizen.entryState">> }
    IN  [name \in {e[1] : e \in entries} |->
            (CHOOSE e \in entries : e[1] = name)[2]]

\* one element of section-9.json's  fields
Field9(name, type, label, id) == [name |-> name, type |-> type, label |-> label, id |-> id]

\* The reference list the audit batches are sub-lists of: implemented and
\* not implemented names of both subsection patterns, and one of neither.
Fields9File == <<
    Field9("form1[0].Sections7-9[0].RadioButtonList[1]", "PDFRadioGroup", "Status", "9001"),
    Field9("form1[0].Sections7-9[0].TextField11[3]", "PDFTextField", "Explanation", "9002"),
    Field9("form1[0].Sections7-9[0].TextField11[99]", "PDFTextField", "Other", "9003"),
    Field9("form1[0].Section9\\.1-9\\.4[0].TextField11[6]", "PDFTextField", "Number",
           "9004"),
    Field9("form1[0].Section9\\.1-9\\.4[0].TextField11[99]", "PDFTextField", "Other",
           "9005"),
    Field9("form1[0].Section10[0].TextField11[0]", "PDFTextField", "Other", "9006") >>

InitAudit ==
    /\ script = "section9-field-audit"
    /\ data \in {[has_fields |-> TRUE, fields |-> b] : b \in SubLists(Fields9File)}
    /\ pc = "fields"
    /\ error = ""
    /\ printed = <<>>
    /\ locals = EmptyDict
    /\ MapIdle

\* lines 113-140
AuditFields ==
    LET Implemented(field) == field.name \in DOMAIN implemented_field_names
        Missing(field) == field.name \notin DOMAIN implemented_field_names
        AsImplemented(fs) ==
            [i \in DOMAIN fs |->
                [field_name |-> fs[i].name, field_type |-> fs[i].type,
                 field_label |-> fs[i].label, field_id |-> fs[i].id,
                 interface_path |-> implemented_field_names[fs[i].name],
                 status |-> "IMPLEMENTED"]]
        AsMissing(fs) ==
            [i \in DOMAIN fs |->
                [field_name |-> fs[i].name, field_type |-> fs[i].type,
                 field_label |-> fs[i].label, field_id |-> fs[i].id,
                 status |-> "MISSING"]]
    IN  /\ script = "section9-field-audit"
        /\ pc = "fields"
        /\ pc' = "results"
        /\ locals' = ([implemented_fields |-> AsImplemented(SelectSeq(data.fields, Implemented)),
                      missing_fields |-> AsMissing(SelectSeq(data.fields, Missing))]) @@ locals
        /\ UNCHANGED stepVars

\* lines 142-145
AuditResults ==
    /\ script = "section9-field-audit"
    /\ pc = "results"
    /\ printed' = <<[total |-> Len(data.fields),
                     implemented |-> Len(locals.implemented_fields),
                     missing |-> Len(locals.missing_fields)]>>
    /\ pc' = "subsections"
    /\ UNCHANGED <<script, data, error, locals, mapVars>>

\* lines 157-175: the counts of the two patterns, then two divisions by them
AuditSubsections ==
    /\ script = "section9-field-audit"
    /\ pc = "subsections"
    /\ LET In7_9(f) == Contains(f.name, "Sections7-9")
           In9_1(f) == /\ ~Contains(f.name, "Sections7-9")
                       /\ Contains(f.name, "Section9") /\ Contains(f.name, "1-9")
                       /\ Contains(f.name, "4")
           Implemented(f) == f.name \in DOMAIN implemented_field_names
           Count(fs) == [total |-> Len(fs), implemented |-> Len(SelectSeq(fs, Implemented))]
           Counted(s7_9, s9_1) ==
               /\ locals' = [sections_7_9_total |-> s7_9.total,
                             sections_7_9_implemented |-> s7_9.implemented,
                             section_9_1_9_4_total |-> s9_1.total,
                             section_9_1_9_4_implemented |-> s9_1.implemented] @@ locals
               /\ IF s7_9.total = 0
                  THEN /\ printed' = printed
                       /\ pc' = "raised"
                       /\ error' = "ZeroDivisionError"
                  ELSE IF s9_1.total = 0
                  THEN /\ printed' = Append(printed, [pattern |-> "Sections7-9"] @@ s7_9)
                       /\ pc' = "raised"
                       /\ error' = "ZeroDivisionError"
                  ELSE /\ printed' = printed \o <<[pattern |-> "Sections7-9"] @@ s7_9,
                                                  [pattern |-> "Section9.1-9.4"] @@ s9_1>>
                       /\ pc' = "overall"
                       /\ error' = ""
       IN  Counted(Count(SelectSeq(data.fields, In7_9)),
                   Count(SelectSeq(data.fields, In9_1)))
    /\ UNCHANGED <<script, data, mapVars>>

\* line 178: a division by len(data['fields'])
AuditOverall ==
    /\ script = "section9-field-audit"
    /\ pc = "overall"
    /\ IF Len(data.fields) = 0
       THEN /\ printed' = printed
            /\ pc' = "raised"
            /\ error' = "ZeroDivisionError"
       ELSE /\ printed' = Append(printed,
                                 [coverage_num |-> Len(locals.implemented_fields) * 100,
                                  coverage_den |-> Len(data.fields)])
            /\ pc' = "done"
            /\ error' = ""
    /\ UNCHANGED <<script, data, locals, mapVars>>

NextAudit == AuditFields \/ AuditResults \/ AuditSubsections \/ AuditOverall

(***************************************************************************)
(* The scripts together                                                    *)
(***************************************************************************)

Init ==
    \/ MapInit
    \/ Init16("calculate_field_distribution")
    \/ Init16("verify_field_pattern")
    \/ Init16("generate_section16_interfaces")
    \/ InitAnalyze
    \/ InitGenerate
    \/ InitGfm
    \/ InitCount
    \/ InitVerify
    \/ InitPatterns
    \/ InitAudit

Next == MapNext \/ Next16 \/ NextDelta \/ NextGfm \/ CountCall \/ VerAnalyze
            \/ VerCoverage \/ AfpAnalyze \/ AfpPrint \/ NextAudit

Spec == Init /\ [][Next]_vars

(***************************************************************************)
(* Properties                                                              *)
(***************************************************************************)

\* a record main hands to generate_logical_path without raising
WellFormed(f) == f.is_dict /\ f.has_name /\ f.name_is_str

\* a record that gets an entry of mappings
Mappable(f) == WellFormed(f) /\ Truthy(LogicalPathOf[f])

\* the records of the batch the loop has gone through
Processed == {i \in DOMAIN data.fields : i < idx}

\* two records of the batch with distinct raw names and one logical path
Collide(f, g) ==
    /\ Mappable(f) /\ Mappable(g)
    /\ f.name # g.name
    /\ LogicalPathOf[f] = LogicalPathOf[g]

\* the TextField11 field map of the subsection a raw name belongs to, as
\* the branches of generate_logical_path choose it; <<>> for no subsection
TextFieldMapOf(n) ==
    IF Contains(n, "section_13_1-2") THEN <<federal_field_map>>
    ELSE IF Contains(n, "section13_2") /\ ~Contains(n, "section13_2-2")
    THEN <<nonfederal_field_map>>
    ELSE IF Contains(n, "section13_3") /\ ~Contains(n, "section13_3-2")
    THEN <<self_field_map>>
    ELSE IF Contains(n, "section13_4") THEN <<unemployment_field_map>>
    ELSE IF Contains(n, "section13_5") THEN <<issues_field_map>>
    ELSE <<>>

\* a TextField11 name of a subsection with a field map that has no entry
\* for the name's positional index
NoFieldMapEntry(n) ==
    LET Absent(m, map) == m # <<>> /\ map # <<>> /\ m[1] \notin DOMAIN map[1]
    IN  Contains(n, "TextField11")
            /\ Absent(SearchIndexed(n, "TextField11"), TextFieldMapOf(n))

\* a raw name without #area marker whose TextField11 index lies in none of
\* the index ranges (verify_field_pattern, lines 37-44)
Unresolved(n) ==
    LET OutOfRange(m) == m # <<>> /\ PersonOfIndex(m[1]) = 0
    IN  ~Contains(n, "#area[") /\ OutOfRange(SearchIndexed(n, "TextField11"))

\* C1: when a mapping run has finished, any two distinct raw names of the
\* batch that synthesize the same logical path are both still in the run's
\* result: the collision is surfaced, neither entry was overwritten.
C1_NoSilentCollision ==
    (script = "generate-field-mappings" /\ pc = "done") =>
        \A i, j \in DOMAIN data.fields :
            Collide(data.fields[i], data.fields[j]) =>
                {data.fields[i].name, data.fields[j].name} \subseteq Range(mappings)

\* a finished run in which one of two colliding raw names is gone
C1_Overwritten ==
    /\ script = "generate-field-mappings" /\ pc = "done"
    /\ \E i, j \in DOMAIN data.fields :
           /\ Collide(data.fields[i], data.fields[j])
           /\ data.fields[i].name \notin Range(mappings)
           /\ data.fields[j].name \in Range(mappings)

\* C2: a raw name without explicit group marker whose positional index is
\* in no configured range never has a logical path under entries[0].
C2_UnresolvedNotEntryZero ==
    script = "generate-field-mappings" =>
        \A p \in DOMAIN mappings :
            Unresolved(mappings[p]) => ~Contains(p, "entries[0]")

\* an unresolved raw name has been mapped under entries[0]
C2_DefaultedToEntryZero ==
    /\ script = "generate-field-mappings"
    /\ \E p \in DOMAIN mappings : Unresolved(mappings[p]) /\ Contains(p, "entries[0]")

\* C3: a field whose raw name carries the marker #area[k] is put in group k
\* (person k+1) and in no other group, whatever its label or its TextField11
\* index say.
C3_MarkerAuthoritative ==
    /\ (script = "generate_section16_interfaces" /\ pc = "field_ids") =>
           \A g \in DOMAIN locals.s16_3_groups :
               \A i \in DOMAIN locals.s16_3_groups[g] :
                   LET ByMarker(m) ==
                           (m # <<>> /\ m[1] \in 0..2) =>
                               g = "person" \o ToString(m[1] + 1)
                   IN  ByMarker(SearchIndexed(locals.s16_3_groups[g][i].name, "#area"))
    /\ (script = "verify_field_pattern" /\ pc \in {"patterns", "per_person", "final", "done"}) =>
           \A person \in DOMAIN locals.textfield_pattern :
               \A i \in DOMAIN locals.textfield_pattern[person] :
                   LET ByMarker(m) == m # <<>> => person = m[1] + 1
                   IN  ByMarker(SearchIndexed(locals.textfield_pattern[person][i][2].name,
                                              "#area"))

\* a field with marker #area[1] grouped under person 1 because of its label
C3_LabelOverridesMarker ==
    /\ script = "generate_section16_interfaces" /\ pc = "field_ids"
    /\ \E i \in DOMAIN locals.s16_3_groups.person1 :
           /\ SearchIndexed(locals.s16_3_groups.person1[i].name, "#area") = <<1>>
           /\ Contains(Lower(locals.s16_3_groups.person1[i].label), "entry #1")

\* C4: for a batch of three raw names of one subsection, two that differ
\* only in the marker (#area[0], #area[1]) with a TextField11 index of the
\* field map and a third with an index the field map lacks, the run maps the
\* first two to two different paths under entries[0] and entries[1], puts
\* the third on the unmapped list and reports mapped = 2, unmapped = 1.
C4_AreaScenario ==
    \A sec \in {"section13_4", "section13_5"} :
        LET a0 == "form1[0]." \o sec \o "[0].#area[0].TextField11[0]"
            a1 == "form1[0]." \o sec \o "[0].#area[1].TextField11[0]"
            u  == "form1[0]." \o sec \o "[0].TextField11[13]"
        IN  (/\ script = "generate-field-mappings" /\ pc = "done"
             /\ Len(data.fields) = 3
             /\ Range(data.fields) = {NamedField13(a0), NamedField13(a1), NamedField13(u)})
            => /\ \E p0, p1 \in DOMAIN mappings :
                      /\ p0 # p1
                      /\ mappings[p0] = a0 /\ Contains(p0, "entries[0].")
                      /\ mappings[p1] = a1 /\ Contains(p1, "entries[1].")
               /\ u \in Range(unmapped_fields)
               /\ printed[1].mapped = 2
               /\ printed[1].unmapped = 1

\* the scenario's run has finished with nothing on the unmapped list
C4_ScenarioRun ==
    /\ script = "generate-field-mappings" /\ pc = "done"
    /\ Range(data.fields) =
           {NamedField13("form1[0].section13_4[0].#area[0].TextField11[0]"),
            NamedField13("form1[0].section13_4[0].#area[1].TextField11[0]"),
            NamedField13("form1[0].section13_4[0].TextField11[13]")}
    /\ Len(data.fields) = 3
    /\ printed[1].unmapped = 0
    /\ Cardinality(DOMAIN mappings) = 2

\* C5: a processed raw name of a subsection with a field map, whose
\* positional index has no entry in that map, is on the unmapped list and
\* has no logical path.
C5_NoEntryIsUnmapped ==
    script = "generate-field-mappings" =>
        \A i \in Processed :
            (WellFormed(data.fields[i]) /\ NoFieldMapEntry(data.fields[i].name)) =>
                /\ data.fields[i].name \in Range(unmapped_fields)
                /\ data.fields[i].name \notin Range(mappings)

\* a raw name without field-map entry has been given a logical path
C5_PathInvented ==
    /\ script = "generate-field-mappings"
    /\ \E i \in Processed :
           /\ WellFormed(data.fields[i]) /\ NoFieldMapEntry(data.fields[i].name)
           /\ data.fields[i].name \in Range(mappings)
           /\ data.fields[i].name \notin Range(unmapped_fields)

\* C6: every group's total includes all S shared fields, so that with N
\* groups the shared fields contribute N*S to the aggregate.
C6_SharedReplicated ==
    /\ (script = "calculate_field_distribution" /\ pc = "done" /\ locals.num_people = 3) =>
           /\ \A k \in 0..2 :
                  locals.entries[k + 2] =
                      Len(GetOrEmpty(locals.section16_3_by_area, k))
                          + Len(locals.section16_3_shared)
           /\ locals.total_calculated =
                  locals.entry1_fields + locals.total_area_fields
                      + 3 * Len(locals.section16_3_shared)
    /\ (script = "verify_field_pattern" /\ pc \in {"final", "done"}
            /\ locals.remaining_fields >= 0) =>
           locals.shared_per_person = locals.remaining_fields

\* three groups and a shared field that no group's total includes
C6_SharedDivided ==
    /\ script = "calculate_field_distribution" /\ pc = "done"
    /\ locals.num_people = 3
    /\ Len(locals.section16_3_shared) = 1
    /\ \A k \in 0..2 :
           locals.entries[k + 2] = Len(GetOrEmpty(locals.section16_3_by_area, k))

\* C7: the reported delta is ExpectedFields minus the counted total; it is
\* zero exactly when the two are equal; a positive delta is reported as
\* missing and a negative one as extra.
C7_DeltaReport ==
    (script \in {"analyze-section13-complete", "generate-complete-section13-mapping"}
        /\ pc = "done") =>
        LET delta == ExpectedFields - locals.total_fields
            Labels == {printed[i].label : i \in DOMAIN printed}
        IN  /\ \A i \in DOMAIN printed :
                   /\ printed[i].label = "Difference" => printed[i].n = delta
                   /\ printed[i].label = "Missing" => (delta > 0 /\ printed[i].n = delta)
                   /\ printed[i].label = "Extra" => (delta < 0 /\ printed[i].n = 0 - delta)
            /\ delta = 0 <=> Labels \cap {"PERFECT", "Field count matches expected"} # {}
            /\ delta > 0 => "Missing" \in Labels
            /\ delta < 0 => "Extra" \in Labels

\* more fields than expected, reported as a negative number of missing ones
C7_NegativeMissing ==
    /\ script = "generate-complete-section13-mapping" /\ pc = "done"
    /\ locals.total_fields > ExpectedFields
    /\ \E i \in DOMAIN printed : printed[i].label = "Missing" /\ printed[i].n < 0

\* C8: coverage reporting never raises: no run ends in an exception of the
\* reporting step, whatever the batch.
C8_ReportNeverRaises ==
    script \in {"generate-field-mappings", "section9-field-audit"} =>
        ~(pc = "raised" /\ error = "ZeroDivisionError")

\* the mapping run of an empty batch has ended in ZeroDivisionError
C8_EmptyBatchRaises ==
    /\ script = "generate-field-mappings"
    /\ FieldsOrEmpty(data) = <<>>
    /\ pc = "raised" /\ error = "ZeroDivisionError"

\* C9: a record with a malformed raw name does not abort the run, and every
\* processed record that gets no mapping, the malformed ones included, is on
\* the unmapped list.
C9_MalformedRecorded ==
    script = "generate-field-mappings" =>
        /\ error # "AttributeError"
        /\ Len(unmapped_fields) =
               Cardinality({i \in Processed : ~Mappable(data.fields[i])})

\* a record without 'name' has been passed over and left no trace
C9_DroppedWithoutTrace ==
    /\ script = "generate-field-mappings" /\ pc = "done"
    /\ \E i \in Processed : ~data.fields[i].has_name
    /\ unmapped_fields = <<>>

\* C10: after a mapping or audit run the mapped count plus the unmapped
\* count equals the number of records reported as processed.
C10_Partition ==
    /\ (script = "generate-field-mappings" /\ printed # <<>>) =>
           printed[1].mapped + printed[1].unmapped = printed[1].total
    /\ (script = "section9-field-audit" /\ printed # <<>>) =>
           printed[1].implemented + printed[1].missing = printed[1].total

\* a finished mapping run whose two counts add up to less than the total
C10_CountsFallShort ==
    /\ script = "generate-field-mappings" /\ pc = "done"
    /\ printed[1].mapped + printed[1].unmapped < printed[1].total

\* a raw name in which the default fallback finds none of the widget type
\* tags: field_type stays 'unknown' and field_index stays 0 (lines 607-609)
UnknownTypeTag(n) ==
    \A tag \in {"TextField11", "RadioButtonList", "CheckBox", "DropDownList",
                "School6_State", "From_Datefield_Name_2", "p3-t68", "#field",
                "Table1"} : ~Contains(n, tag)

\* C11: a raw name whose widget type tag cannot be decomposed gets the type
\* tag "unknown" with the sentinel index -1, and never a logical path that
\* is counted as mapped: no entry of mappings belongs to such a name.
C11_SentinelNeverMapped ==
    script = "generate-field-mappings" =>
        \A p \in DOMAIN mappings :
            ~UnknownTypeTag(mappings[p])

\* a name without type tag has been counted as mapped, under the substituted
\* index 0
C11_UnknownZeroMapped ==
    /\ script = "generate-field-mappings" /\ pc = "done"
    /\ "section13.section2.unknown0.value" \in DOMAIN mappings
    /\ UnknownTypeTag(mappings["section13.section2.unknown0.value"])
    /\ printed[1].mapped = 1 /\ printed[1].unmapped = 0

\* main's loop over data['fields'] (lines 737-769) run to its end on a whole
\* batch: the two result collections, and the exception that ended it
RECURSIVE MainLoop(_)
MainLoop(fields) ==
    LET Step(before, field) ==
            IF before.error # "" THEN before
            ELSE IF ~field.is_dict \/ ~field.has_name THEN before
            ELSE IF ~field.name_is_str THEN [before EXCEPT !.error = "AttributeError"]
            ELSE IF Truthy(LogicalPathOf[field])
            THEN [before EXCEPT !.mappings =
                                    DictSet(@, LogicalPathOf[field][1], field.name)]
            ELSE [before EXCEPT !.unmapped_fields = Append(@, field.name)]
    IN  IF fields = <<>>
        THEN [mappings |-> EmptyDict, unmapped_fields |-> <<>>, error |-> ""]
        ELSE Step(MainLoop(SubSeq(fields, 1, Len(fields) - 1)), fields[Len(fields)])

\* a batch in another order: element i is element pi[i] of the batch
Permuted(fields, pi) == [i \in DOMAIN fields |-> fields[pi[i]]]

\* C12: running the pipeline on any permutation of the same batch yields the
\* same result after sorting: the same raw-name/logical-path pairs, the same
\* mapped and unmapped sets and counts, and the same generated keys.
C12_PermutationInvariant ==
    /\ (script = "generate-field-mappings" /\ pc = "done") =>
           \A pi \in Permutations(DOMAIN data.fields) :
               LET Same(other) ==
                       /\ other.mappings = mappings
                       /\ Range(other.unmapped_fields) = Range(unmapped_fields)
                       /\ Len(other.unmapped_fields) = Len(unmapped_fields)
               IN  Same(MainLoop(Permuted(data.fields, pi)))
    /\ (script = "generate_field_mappings" /\ pc = "done") =>
           \A pi \in Permutations(DOMAIN data.fields) :
               LET KeysOf(fields) ==
                       {generate_mapping_key(IF fields[i].has_name THEN fields[i].name
                                             ELSE "field_" \o ToString(i - 1), i - 1) :
                           i \in {j \in DOMAIN fields :
                                     /\ fields[j].has_type
                                     /\ fields[j].type \in DOMAIN TypeCategories}}
               IN  KeysOf(Permuted(data.fields, pi)) =
                       UNION {DOMAIN locals.mappings[TypeCategories[t]] :
                                 t \in DOMAIN TypeCategories}

\* a finished mapping run of two colliding raw names, which the loop run on
\* the batch reproduces, and whose mappings differ from those of the batch
\* in the other order
C12_OrderDecidesMapping ==
    /\ script = "generate-field-mappings" /\ pc = "done"
    /\ Len(data.fields) = 2
    /\ Collide(data.fields[1], data.fields[2])
    /\ MainLoop(data.fields).mappings = mappings
    /\ MainLoop(<<data.fields[2], data.fields[1]>>).mappings # mappings
    /\ Cardinality(DOMAIN MainLoop(<<data.fields[2], data.fields[1]>>).mappings)
           = Cardinality(DOMAIN mappings)

\* C13: classification is total and every record is counted: a record whose
\* declared type matches no rule falls into a generic category, so the
\* per-category counts sum to the number of records in the batch.
C13_EveryRecordCounted ==
    (script = "generate_field_mappings" /\ pc = "done") =>
        /\ printed[1].TOTAL_FIELDS = Len(data.fields)
        /\ \A i \in DOMAIN data.fields :
               \E k \in DOMAIN locals.mappings \ {"STRING_VALUES"} :
                   (IF data.fields[i].has_name THEN data.fields[i].name
                    ELSE "field_" \o ToString(i - 1)) \in Range(locals.mappings[k])

\* a finished run whose batch held a record of a declared type that is none
\* of the four known ones, or of no declared type: the record is in none of
\* the categories and the total falls short of the batch
C13_RecordInNoCategory ==
    /\ script = "generate_field_mappings" /\ pc = "done"
    /\ \E i \in DOMAIN data.fields :
           /\ ~data.fields[i].has_type \/ data.fields[i].type = "PDFSignature"
           /\ \A k \in DOMAIN locals.mappings :
                  data.fields[i].name \notin Range(locals.mappings[k])
    /\ printed[1].TOTAL_FIELDS < Len(data.fields)

\* C14: the group a field is assigned to depends only on its raw name: a
\* record that differs from a grouped one only in its label (any label of
\* the reference list) is put in the same group.
C14_LabelIrrelevant ==
    (script = "generate_section16_interfaces" /\ pc = "field_ids") =>
        \A l \in {Fields16File[j].label : j \in DOMAIN Fields16File} :
            /\ \A g \in DOMAIN locals.s16_3_groups :
                   \A i \in DOMAIN locals.s16_3_groups[g] :
                       LET Relabelled(f) == Group16_3(f.name, [f EXCEPT !.label = l])
                       IN  Relabelled(locals.s16_3_groups[g][i]) = g
            /\ \A g \in DOMAIN locals.s16_1_groups :
                   \A i \in DOMAIN locals.s16_1_groups[g] :
                       LET Relabelled(f) == Group16_1(f.name, [f EXCEPT !.label = l])
                       IN  Relabelled(locals.s16_1_groups[g][i]) = g

\* a Section16_3 field grouped under person1 that, with the same raw name and
\* another label of the reference list, is grouped under person2
C14_LabelDecidesGroup ==
    /\ script = "generate_section16_interfaces" /\ pc = "field_ids"
    /\ \E i \in DOMAIN locals.s16_3_groups.person1 :
           LET Relabelled(f) == Group16_3(f.name, [f EXCEPT !.label = "From date"])
           IN  /\ locals.s16_3_groups.person1[i].label = "Entry #1 To date"
               /\ Relabelled(locals.s16_3_groups.person1[i]) = "person2"

\* the largest TextField11 index the range table is examined for
MaxIndex == 40

\* C15: a TextField11 field without #area marker is put in the group of the
\* one range that holds its index (0-10 person 1, 11-21 person 2, 22-32
\* person 3): every index has at most one group, adjacent ranges share no
\* index, and an index in no range goes to no person (the bucket 0).
C15_RangeResolution ==
    /\ \A index \in 0..MaxIndex :
           /\ \A k \in 1..3 :
                  (PersonOfIndex(index) = k) <=> (index \in (11 * (k - 1))..(11 * k - 1))
           /\ (PersonOfIndex(index) = 0) <=> (index > 32)
    /\ (script = "verify_field_pattern" /\ pc # "start") =>
           \A i \in DOMAIN locals.section16_3_fields :
               LET field == locals.section16_3_fields[i]
                   Resolved(m) ==
                       (m # <<>> /\ ~Contains(field.name, "#area[")) =>
                           {p \in DOMAIN locals.textfield_pattern :
                               <<m[1], field>> \in Range(locals.textfield_pattern[p])}
                             = {PersonOfIndex(m[1])}
               IN  Resolved(SearchIndexed(field.name, "TextField11"))

\* a classified batch with an unmarked field of index 12 under person 2 and
\* an unmarked field of index 40 under no person
C15_ResolvedByRange ==
    /\ script = "verify_field_pattern" /\ pc = "done"
    /\ DOMAIN locals.textfield_pattern = {0, 2}
    /\ \E i \in DOMAIN locals.textfield_pattern[2] :
           /\ locals.textfield_pattern[2][i][1] = 12
           /\ ~Contains(locals.textfield_pattern[2][i][2].name, "#area[")
    /\ \E i \in DOMAIN locals.textfield_pattern[0] :
           /\ locals.textfield_pattern[0][i][1] = 40
           /\ ~Contains(locals.textfield_pattern[0][i][2].name, "#area[")

\* C17: the logical path of a record depends only on its raw name: in every
\* state of a mapping run each entry of mappings holds the path that
\* generate_logical_path gives the raw name on its own, with any value, and
\* each unmapped name is one that gets no path on its own, whatever its
\* value, the other records of the batch and the records processed before.
C17_PathOfNameOnly ==
    script = "generate-field-mappings" =>
        \A field_value \in {"", "sect13A.1Entry1", "YES"} :
            /\ \A p \in DOMAIN mappings :
                   generate_logical_path(mappings[p], field_value, mappings[p]) = Some(p)
            /\ \A i \in DOMAIN unmapped_fields :
                   ~Truthy(generate_logical_path(unmapped_fields[i], field_value,
                                                 unmapped_fields[i]))
            /\ \A i \in Processed :
                   Mappable(data.fields[i]) =>
                       /\ LogicalPathOf[data.fields[i]][1] \in DOMAIN mappings
                       /\ LogicalPathOf[data.fields[i]] =
                              generate_logical_path(data.fields[i].name, field_value,
                                                    data.fields[i].name)

\* a finished run of three records, the first two of one raw name with and
\* without a value, that left one path for that name and another for the third
C17_SamePathForTwoValues ==
    /\ script = "generate-field-mappings" /\ pc = "done"
    /\ Len(data.fields) = 3
    /\ data.fields[1].name = data.fields[2].name
    /\ data.fields[1].value # data.fields[2].value
    /\ Mappable(data.fields[1]) /\ Mappable(data.fields[3])
    /\ Cardinality(DOMAIN mappings) = 2
    /\ {p \in DOMAIN mappings : mappings[p] = data.fields[1].name}
           = {LogicalPathOf[data.fields[2]][1]}

\* C18: no counting state leaks between calls: successive calls of
\* count_all_fields on the same data, each without accumulator, return the
\* same count and separate field lists of that length with the same entries;
\* a later call never sees the entries of an earlier one.
C18_NoLeakBetweenCalls ==
    script = "count_all_fields" =>
        \A i, j \in DOMAIN locals.results :
            LET first == locals.results[i]
                second == locals.results[j]
            IN  /\ first.count = Len(first.field_list)
                /\ second.count = first.count
                /\ second.field_list = first.field_list
                /\ i # j => second.list # first.list

\* two calls have returned on a structure with three 'value' keys
C18_CalledTwice ==
    /\ script = "count_all_fields" /\ pc = "done"
    /\ Len(locals.results) = MaxCalls
    /\ locals.results[1].count = 3
    /\ locals.results[MaxCalls].count = 3
    /\ Len(locals.results[MaxCalls].field_list) = 3

C20_ContinuationKeptApart ==
    script = "generate-field-mappings" =>
        LET Counted(label) == GetOrZero(section_stats, label)
            \* the mapped records of the section, of its continuation variant or not
            Mapped(section, variant, continuation) ==
                Cardinality({i \in Processed :
                                /\ Mappable(data.fields[i])
                                /\ Contains(data.fields[i].name, section)
                                /\ Contains(data.fields[i].name, variant) = continuation})
            Apart(section, variant, prefix, primary_label, additional_label) ==
                /\ \A p \in DOMAIN mappings :
                       Contains(mappings[p], variant) =>
                           StartsAt(p, "section13." \o prefix \o "Additional.entries[0].", 1)
                /\ Counted(additional_label) = Mapped(section, variant, TRUE)
                /\ Counted(primary_label) = Mapped(section, variant, FALSE)
        IN  /\ Apart("section13_2", "section13_2-2", "nonFederalEmployment",
                     "13A.2 Non-Federal Employment", "13A.2 Additional Non-Federal")
            /\ Apart("section13_3", "section13_3-2", "selfEmployment",
                     "13A.3 Self-Employment", "13A.3 Additional Self-Employment")

\* a finished run of a primary section13_2 field and a field of each
\* continuation variant, all three mapped, each counted once under its own
\* statistic
C20_BothVariantsMapped ==
    /\ script = "generate-field-mappings" /\ pc = "done"
    /\ {data.fields[i].name : i \in DOMAIN data.fields}
           = {"form1[0].section13_2[0].suffix[0]",
              "form1[0].section13_2-2[0].TextField11[40]",
              "form1[0].section13_3-2[0].RadioButtonList[1]"}
    /\ Cardinality(DOMAIN mappings) = 3
    /\ section_stats["13A.2 Non-Federal Employment"] = 1
    /\ section_stats["13A.2 Additional Non-Federal"] = 1
    /\ section_stats["13A.3 Additional Self-Employment"] = 1
    /\ "section13.selfEmploymentAdditional.entries[0].radioButton1.value" \in DOMAIN mappings

\* C21: generate_field_mappings gives every record of the batch a key of its
\* own, also when two cleaned names coincide: no record of a known declared
\* type overwrites another, and TOTAL_FIELDS is the number of records whose
\* declared type is one of the four known PDF types.
C21_DistinctKeys ==
    script = "generate_field_mappings" =>
        LET Known(i) == /\ data.fields[i].has_type
                        /\ data.fields[i].type \in DOMAIN TypeCategories
            NameOf(i) == IF data.fields[i].has_name THEN data.fields[i].name
                         ELSE "field_" \o ToString(i - 1)
            done == {i \in DOMAIN data.fields : i <= locals.i}
            Size(k) == Cardinality(DOMAIN locals.mappings[k])
        IN  /\ \A i \in done :
                   Known(i) =>
                       \E key \in DOMAIN locals.mappings[TypeCategories[data.fields[i].type]] :
                           /\ locals.mappings[TypeCategories[data.fields[i].type]][key]
                                  = NameOf(i)
                           /\ \A j \in done \ {i} :
                                  Known(j) =>
                                      key # generate_mapping_key(NameOf(j), j - 1)
            /\ Size("TEXT_FIELDS") + Size("CHECKBOX_FIELDS") + Size("RADIO_FIELDS")
                   + Size("DROPDOWN_FIELDS")
                 = Cardinality({i \in done : Known(i)})
            /\ pc = "done" =>
                   printed[1].TOTAL_FIELDS
                       = Cardinality({i \in DOMAIN data.fields : Known(i)})

\* a finished run on a batch with the two names that are cleaned to the same
\* key: both are in TEXT_FIELDS
C21_CoincidingNamesKept ==
    /\ script = "generate_field_mappings" /\ pc = "done"
    /\ Len(data.fields) = 2
    /\ {data.fields[1].name, data.fields[2].name}
           = {"form1[0].section13_2[0].TextField11[1]",
              "form1[0].section13_2_0.TextField11_1"}
    /\ C21_KeyWithoutIndex(data.fields[1].name, 0) = C21_KeyWithoutIndex(data.fields[2].name, 1)
    /\ Cardinality(DOMAIN locals.mappings.TEXT_FIELDS) = 2
    /\ printed[1].TOTAL_FIELDS = 2

\* C22: with three area groups calculate_field_distribution loses no field
\* when it distributes the shared fields: total_calculated is the number of
\* Section16_1 fields plus the number of Section16_3 fields.
C22_NoFieldLost ==
    (/\ script = "calculate_field_distribution"
     /\ pc = "done"
     /\ locals.num_people = 3) =>
        locals.total_calculated
            = Len(locals.section16_1_fields) + Len(locals.section16_3_fields)

\* a finished run with three area groups and one shared field, which is in
\* none of the four entries
C22_SharedFieldDropped ==
    /\ script = "calculate_field_distribution"
    /\ pc = "done"
    /\ locals.num_people = 3
    /\ locals.shared_fields_count = 1
    /\ locals.shared_per_person = 0
    /\ locals.total_calculated
           = Len(locals.section16_1_fields) + Len(locals.section16_3_fields) - 1

\* C23: verify_field_pattern counts every Section16_3 field in one bucket:
\* remaining_fields is never negative and is the number of Section16_3
\* fields that are neither TextField11, suffix, phone nor area fields.
C23_RemainingIsTheRest ==
    (/\ script = "verify_field_pattern"
     /\ pc \in {"final", "done"}) =>
        LET Rest(f) == /\ SearchIndexed(f.name, "TextField11") = <<>>
                       /\ ~Contains(f.name, "suffix[")
                       /\ ~Contains(f.name, "p3-t68[")
                       /\ ~Contains(f.name, "#area[")
        IN  /\ locals.remaining_fields >= 0
            /\ locals.remaining_fields
                   = Len(SelectSeq(locals.section16_3_fields, Rest))

\* a finished run on the one field  #area[1].TextField11[0] : it is counted
\* by person and by area, and taken off the fields that are left
C23_AreaTextFieldTakenTwice ==
    /\ script = "verify_field_pattern"
    /\ pc = "done"
    /\ Len(data.fields) = 1
    /\ data.fields[1].name = "form1[0].Section16_3[0].#area[1].TextField11[0]"
    /\ Len(locals.other_fields) = 0
    /\ locals.area_counts[1] = 1
    /\ Len(locals.textfield_pattern[1]) = 1
    /\ locals.remaining_fields = -1

\* C24: verify_coverage counts no field as mapped more than once:
\* total_mapped never exceeds total_fields, and the total coverage and the
\* coverage of each type are between 0 and 100 percent.
C24_CoverageWithinBounds ==
    (/\ script = "verify-section13-complete-1086"
     /\ pc = "done") =>
        LET results == locals.results
            Percent(c) == 0 <= c.num /\ c.num <= 100 * c.den
        IN  /\ results.total_mapped <= locals.field_analysis.total_fields
            /\ Percent(results.total_coverage)
            /\ Percent(results.string_coverage)
            /\ Percent(results.checkbox_coverage)
            /\ Percent(results.radio_coverage)
            /\ Percent(results.dropdown_coverage)

\* a finished run on one dropdown record whose name and whose value are both
\* in the interface file: one field, two mapped
C24_FieldMappedTwice ==
    /\ script = "verify-section13-complete-1086"
    /\ pc = "done"
    /\ Len(data.fields) = 1
    /\ data.fields[1].type = "PDFDropdown"
    /\ data.fields[1].name \in locals.interface_mappings.dropdown_fields
    /\ data.fields[1].value \in locals.interface_mappings.string_values
    /\ locals.results.total_mapped = 2
    /\ locals.results.total_coverage = [num |-> 200, den |-> 1]
    /\ locals.results.dropdown_coverage = [num |-> 100, den |-> 1]

RECURSIVE C25_ValueKeys(_)
\* the 'value' keys of a structure: each one counts once and what it holds is
\* not looked into
C25_ValueKeys(obj) ==
    LET Of(item) == IF obj.kind = "list" THEN C25_ValueKeys(item)
                    ELSE IF item[1] = "value" THEN 1
                    ELSE C25_ValueKeys(item[2])
    IN  IF obj.kind \in {"dict", "list"}
        THEN SumValues([k \in DOMAIN obj.items |-> Of(obj.items[k])])
        ELSE 0

\* C25: count_all_fields, called without an accumulator, returns a count
\* that is the length of the returned list and the number of 'value' keys of
\* the structure, and the field_number values are 1..count in order.
C25_CountIsListLength ==
    script = "count_all_fields" =>
        \A c \in DOMAIN locals.results :
            LET r == locals.results[c]
            IN  /\ r.count = Len(r.field_list)
                /\ r.count = C25_ValueKeys(data)
                /\ \A n \in DOMAIN r.field_list : r.field_list[n].field_number = n

\* a call has returned on the structure with 'value' keys at several depths:
\* three fields, numbered 1, 2, 3
C25_NestedCounted ==
    /\ script = "count_all_fields"
    /\ Len(locals.results) >= 1
    /\ data.kind = "dict" /\ Len(data.items) = 1 /\ data.items[1][1] = "section13"
    /\ locals.results[1].count = 3
    /\ [n \in 1..3 |-> locals.results[1].field_list[n].value.v] = <<"v1", "v2", "v3">>
    /\ [n \in 1..3 |-> locals.results[1].field_list[n].field_number] = <<1, 2, 3>>

\* C26: analyze_field_patterns puts every field into exactly one of its six
\* lists, so TOTAL FIELDS is the number of input fields; the main status
\* field is never in section_9_1, and a field of neither name pattern is in
\* 'unknown'.
C26_OneBucketEach ==
    (/\ script = "analyze-section9-fields"
     /\ pc \in {"print", "done"}) =>
        LET patterns == locals.patterns
            In(section, field) == \E n \in DOMAIN patterns[section] :
                                      patterns[section][n] = field
            SectionsOf(field) == {section \in DOMAIN patterns : In(section, field)}
        IN  /\ \A i \in DOMAIN data.fields :
                   LET field == data.fields[i]
                   IN  /\ Cardinality(SectionsOf(field)) = 1
                       /\ Contains(field.name, "Sections7-9[0].RadioButtonList[1]")
                              => ~In("section_9_1", field)
                       /\ (/\ ~Contains(field.name, "Sections7-9[0]")
                           /\ ~Contains(field.name, "Section9\\.1-9\\.4[0]"))
                              => In("unknown", field)
            /\ SumValues([section \in DOMAIN patterns |-> Len(patterns[section])])
                   = Len(data.fields)
            /\ pc = "done" => printed[1].total_fields = Len(data.fields)

\* a finished run on a batch with the main status field, a field of neither
\* pattern and a Section9\.1-9\.4 field that its value puts in section_9_4
\* and its position in section_9_3
C26_EveryBucketKind ==
    /\ script = "analyze-section9-fields"
    /\ pc = "done"
    /\ Len(locals.patterns.main_status) = 1
    /\ locals.patterns.main_status[1].name = "form1[0].Sections7-9[0].RadioButtonList[1]"
    /\ Len(locals.patterns.section_9_1) = 2
    /\ Len(locals.patterns.unknown) = 1
    /\ \E n \in DOMAIN locals.patterns.section_9_4 :
           locals.patterns.section_9_4[n].value = "Alien document"
    /\ printed[1].total_fields = Len(data.fields)
    /\ Len(data.fields) = 10

\* C27: convert_to_safe_property_name is idempotent, its result has only
\* letters, digits and underscores, no two underscores in a row and none at
\* either end, and distinct raw names of a batch get distinct property
\* names: SECTION16_FIELD_IDS has one key per raw name.
C27_SafeNamesDistinct ==
    (/\ script = "generate_section16_interfaces"
     /\ pc = "done") =>
        /\ \A i \in DOMAIN printed :
               LET safe_name == printed[i].safe_name
               IN  /\ convert_to_safe_property_name(safe_name) = safe_name
                   /\ \A k \in 1..Len(safe_name) :
                          Contains(LowerCase \o UpperCase \o "0123456789_",
                                   CharAt(safe_name, k))
                   /\ ~Contains(safe_name, "__")
                   /\ ~StartsAt(safe_name, "_", 1)
                   /\ ~StartsAt(safe_name, "_", Len(safe_name))
        /\ \A i, j \in DOMAIN printed :
               printed[i].name # printed[j].name
                   => printed[i].safe_name # printed[j].safe_name
        /\ Cardinality({printed[i].safe_name : i \in DOMAIN printed})
               = Cardinality({data.fields[i].name : i \in DOMAIN data.fields})

\* the field ids of a batch with p3-t68[1] and p3_t68[1] are printed: two
\* raw names, one property name
C27_TwoNamesOneProperty ==
    /\ script = "generate_section16_interfaces"
    /\ pc = "done"
    /\ Len(printed) = 2
    /\ printed[1].name = "form1[0].Section16_3[0].p3-t68[1]"
    /\ printed[2].name = "form1[0].Section16_3[0].p3_t68[1]"
    /\ printed[1].safe_name = "Section16_3_0_p3_t68_1"
    /\ printed[2].safe_name = "Section16_3_0_p3_t68_1"

=============================================================================
